---- MODULE Spec2Model ----
(***************************************************************************)
(* A model of the recommendation engine: the similarity functions of       *)
(* utils.py, the CollaborativeFiltering and ContentBased engines, the      *)
(* RecommendationService that owns them, and the rating/item/user          *)
(* repositories the service reads.                                         *)
(*                                                                         *)
(* Numbers.  Python floats are modelled by exact rationals <<n, d>> in     *)
(* lowest terms (d > 0).  The two places where the code leaves the         *)
(* rationals -- a square root in a similarity, and a division by a sum of  *)
(* similarities -- round down to the grid of 1/GRID, the model's float     *)
(* precision.  NaN is the pair <<0, 0>>.                                   *)
(*                                                                         *)
(* Dictionaries.  A Python dict is modelled by the sequence of its         *)
(* (key, value) pairs in insertion order, because the order of a result    *)
(* list under ties is the dicts' iteration order (list.sort is stable).    *)
(* A set of small ints iterates in ascending order.                        *)
(***************************************************************************)
EXTENDS Integers, Sequences, FiniteSets, TLC

(***************************************************************************)
(* Exact rationals                                                         *)
(***************************************************************************)
Abs(n) == IF n < 0 THEN -n ELSE n

RECURSIVE Gcd(_, _)
Gcd(a, b) == IF b = 0 THEN a ELSE Gcd(b, a % b)

Lcm(a, b) == (a \div Gcd(a, b)) * b

\* the rational n/d in lowest terms, d /= 0
Q(n, d) ==
  LET g == Gcd(Abs(n), Abs(d))
      s == IF d < 0 THEN -1 ELSE 1
  IN  <<s * (n \div g), Abs(d) \div g>>

QInt(n) == <<n, 1>>
NaN == <<0, 0>>
IsNaN(x) == x[2] = 0

QAdd(x, y) ==
  LET l == Lcm(x[2], y[2])
  IN  Q(x[1] * (l \div x[2]) + y[1] * (l \div y[2]), l)
QNeg(x) == <<-x[1], x[2]>>
QSub(x, y) == QAdd(x, QNeg(y))
QMul(x, y) ==
  LET g1 == Gcd(Abs(x[1]), y[2])
      g2 == Gcd(Abs(y[1]), x[2])
  IN  Q((x[1] \div g1) * (y[1] \div g2), (x[2] \div g2) * (y[2] \div g1))
\* y /= 0
QDiv(x, y) == QMul(x, IF y[1] < 0 THEN <<-y[2], -y[1]>> ELSE <<y[2], y[1]>>)
QAbs(x) == <<Abs(x[1]), x[2]>>
\* comparisons with NaN are false, as in IEEE arithmetic
QLt(x, y) == ~IsNaN(x) /\ ~IsNaN(y) /\
  LET l == Lcm(x[2], y[2]) IN x[1] * (l \div x[2]) < y[1] * (l \div y[2])
QGt(x, y) == QLt(y, x)
QLe(x, y) == ~IsNaN(x) /\ ~IsNaN(y) /\ ~QLt(y, x)
\* Python's max(a, b) and min(a, b): the first argument unless the second beats it
QMax(a, b) == IF QGt(b, a) THEN b ELSE a
QMin(a, b) == IF QLt(b, a) THEN b ELSE a

\* the model's float precision: results that are not rational, or that divide
\* by a non-rational, are rounded down (towards zero) to a multiple of 1/GRID
GRID == 10^6

(***************************************************************************)
(* Naturals beyond 32 bits, for the squares inside a similarity: a         *)
(* sequence of limbs, least significant first, base BigBase.               *)
(***************************************************************************)
BigBase == 10^3

RECURSIVE BigOfNat(_)
BigOfNat(n) == IF n = 0 THEN <<>> ELSE <<n % BigBase>> \o BigOfNat(n \div BigBase)

RECURSIVE BigAddC(_, _, _)
BigAddC(a, b, c) ==
  IF a = <<>> /\ b = <<>> THEN (IF c = 0 THEN <<>> ELSE <<c>>)
  ELSE LET x == IF a = <<>> THEN 0 ELSE Head(a)
           y == IF b = <<>> THEN 0 ELSE Head(b)
           t == x + y + c
       IN  <<t % BigBase>> \o
           BigAddC(IF a = <<>> THEN a ELSE Tail(a),
                   IF b = <<>> THEN b ELSE Tail(b), t \div BigBase)
BigAdd(a, b) == BigAddC(a, b, 0)

\* a * k for a native k with k * BigBase below 2^31
RECURSIVE BigMulSmallC(_, _, _)
BigMulSmallC(a, k, c) ==
  IF a = <<>> THEN BigOfNat(c)
  ELSE LET t == Head(a) * k + c
       IN  <<t % BigBase>> \o BigMulSmallC(Tail(a), k, t \div BigBase)
BigMulSmall(a, k) == IF k = 0 THEN <<>> ELSE BigMulSmallC(a, k, 0)

RECURSIVE BigMul(_, _)
BigMul(a, b) ==
  IF a = <<>> \/ b = <<>> THEN <<>>
  ELSE LET rest == BigMul(Tail(a), b)
       IN  BigAdd(BigMulSmall(b, Head(a)),
                  IF rest = <<>> THEN <<>> ELSE <<0>> \o rest)

RECURSIVE BigLeqFrom(_, _, _)
BigLeqFrom(a, b, i) ==
  IF i = 0 THEN TRUE
  ELSE IF a[i] /= b[i] THEN a[i] < b[i]
  ELSE BigLeqFrom(a, b, i - 1)
BigLeq(a, b) ==
  IF Len(a) /= Len(b) THEN Len(a) < Len(b) ELSE BigLeqFrom(a, b, Len(a))

\* the largest r in lo..hi with r * r * d <= t  (lo satisfies it)
RECURSIVE SqrtSearch(_, _, _, _)
SqrtSearch(lo, hi, d, t) ==
  IF lo = hi THEN lo
  ELSE LET mid == (lo + hi + 1) \div 2
       IN  IF BigLeq(BigMulSmall(BigMulSmall(d, mid), mid), t)
           THEN SqrtSearch(mid, hi, d, t)
           ELSE SqrtSearch(lo, mid - 1, d, t)

\* n / sqrt(d) for |n| <= sqrt(d), d > 0 a Big, n a Big with sign sgn:
\* rounded towards zero to the grid
SqrtRatio(sgn, n, d) ==
  LET gg == BigOfNat(GRID)
      t  == BigMul(BigMul(n, n), BigMul(gg, gg))
  IN  Q(sgn * SqrtSearch(0, GRID, d, t), GRID)

\* x / y for y /= 0, rounded towards zero to the grid: the float division the
\* code performs on sums of similarities
RECURSIVE ScaleFloor(_, _, _)
ScaleFloor(rem, d, g) ==
  IF g = 1 THEN 0
  ELSE (((rem * 10) \div d) * (g \div 10)) + ScaleFloor((rem * 10) % d, d, g \div 10)
GridFloor(q) ==
  LET n == Abs(q[1])
      s == IF q[1] < 0 THEN -1 ELSE 1
  IN  Q(s * (((n \div q[2]) * GRID) + ScaleFloor(n % q[2], q[2], GRID)), GRID)
FDiv(x, y) == GridFloor(QDiv(x, y))

(***************************************************************************)
(* Python containers                                                       *)
(***************************************************************************)
\* a dict: the sequence of its <<key, value>> pairs in insertion order
DHas(d, k) == \E i \in DOMAIN d : d[i][1] = k
DIdx(d, k) == CHOOSE i \in DOMAIN d : d[i][1] = k
DGet(d, k, default) == IF DHas(d, k) THEN d[DIdx(d, k)][2] ELSE default
DPut(d, k, v) ==
  IF DHas(d, k) THEN [d EXCEPT ![DIdx(d, k)] = <<k, v>>] ELSE Append(d, <<k, v>>)
DKeys(d) == [i \in DOMAIN d |-> d[i][1]]
DKeySet(d) == {d[i][1] : i \in DOMAIN d}
DValues(d) == [i \in DOMAIN d |-> d[i][2]]

RECURSIVE FoldSeq(_, _, _)
FoldSeq(op(_, _), acc, s) ==
  IF s = <<>> THEN acc ELSE FoldSeq(op, op(acc, Head(s)), Tail(s))

Range(s) == {s[i] : i \in DOMAIN s}

\* list(a set of small ints): ascending
RECURSIVE SortedSeq(_)
SortedSeq(S) ==
  IF S = {} THEN <<>>
  ELSE LET m == CHOOSE a \in S : \A b \in S : a <= b
       IN  <<m>> \o SortedSeq(S \ {m})

\* a faulty sort: the list is left as it is
Unsorted(s) == s

\* list.sort(key=lambda x: x[1], reverse=True): descending by the second
\* component, stable (equal keys keep their order)
RECURSIVE InsertDesc(_, _)
InsertDesc(s, e) ==
  IF s = <<>> THEN <<e>>
  ELSE IF QLt(Head(s)[2], e[2]) THEN <<e>> \o s
  ELSE <<Head(s)>> \o InsertDesc(Tail(s), e)
SortDesc(s) == FoldSeq(InsertDesc, <<>>, s)

\* s[:n]
Slice(s, n) ==
  LET m == IF n < 0 THEN (IF Len(s) + n < 0 THEN 0 ELSE Len(s) + n)
           ELSE (IF n > Len(s) THEN Len(s) ELSE n)
  IN  SubSeq(s, 1, m)

(***************************************************************************)
(* utils.py: similarity functions on vectors (sequences of rationals)      *)
(***************************************************************************)
VecDen(v) == FoldSeq(LAMBDA l, e : Lcm(l, e[2]), 1, v)
\* the vector scaled to integers (a similarity does not depend on the scale)
VecInts(v) == LET l == VecDen(v) IN [i \in DOMAIN v |-> v[i][1] * (l \div v[i][2])]
SumSq(a) == FoldSeq(LAMBDA acc, e : BigAdd(acc, BigMulSmall(BigOfNat(Abs(e)), Abs(e))), <<>>, a)
SumInts(a) == FoldSeq(LAMBDA acc, e : acc + e, 0, a)
Dot(a, b) == SumInts([i \in DOMAIN a |-> a[i] * b[i]])

\* a faulty cosine_similarity: the guard of lines 29-30 left out, 0/0 is nan
cosine_unguarded(vector1, vector2) ==
  IF SumSq(VecInts(vector1)) = <<>> \/ SumSq(VecInts(vector2)) = <<>> THEN NaN
  ELSE SqrtRatio(IF Dot(VecInts(vector1), VecInts(vector2)) < 0 THEN -1 ELSE 1,
                 BigOfNat(Abs(Dot(VecInts(vector1), VecInts(vector2)))),
                 BigMul(SumSq(VecInts(vector1)), SumSq(VecInts(vector2))))

cosine_similarity(vector1, vector2) ==
  LET a == VecInts(vector1)
      b == VecInts(vector2)
      norm1 == SumSq(a)
      norm2 == SumSq(b)
      dot == Dot(a, b)
  IN  IF norm1 = <<>> \/ norm2 = <<>> THEN QInt(0)
      ELSE SqrtRatio(IF dot < 0 THEN -1 ELSE 1, BigOfNat(Abs(dot)), BigMul(norm1, norm2))

pearson_correlation(vector1, vector2) ==
  IF Len(vector1) < 2 \/ Len(vector2) < 2 THEN QInt(0)
  ELSE
    LET mask == SelectSeq([i \in DOMAIN vector1 |-> i],
                          LAMBDA i : ~(vector1[i][1] = 0 \/ vector2[i][1] = 0))
        filtered1 == [k \in DOMAIN mask |-> vector1[mask[k]]]
        filtered2 == [k \in DOMAIN mask |-> vector2[mask[k]]]
    IN  IF Len(filtered1) < 2 THEN QInt(0)
        ELSE
          \* np.corrcoef: cov / sqrt(var1 * var2), 0/0 = nan when a variance is 0
          LET a == VecInts(filtered1)
              b == VecInts(filtered2)
              n == Len(a)
              cov == (n * Dot(a, b)) - (SumInts(a) * SumInts(b))
              var1 == (n * Dot(a, a)) - (SumInts(a) * SumInts(a))
              var2 == (n * Dot(b, b)) - (SumInts(b) * SumInts(b))
          IN  IF var1 = 0 \/ var2 = 0 THEN NaN
              ELSE SqrtRatio(IF cov < 0 THEN -1 ELSE 1, BigOfNat(Abs(cov)),
                             BigMul(BigOfNat(var1), BigOfNat(var2)))


(***************************************************************************)
(* services/collaborative_filtering.py                                     *)
(* A rating is a record [id, user_id, item_id, value].  An engine is a     *)
(* record of its configuration and its tables.                             *)
(***************************************************************************)
CollaborativeFiltering(method, similarity_metric) ==
  [method |-> method, similarity_metric |-> similarity_metric,
   user_item_ratings |-> <<>>, item_user_ratings |-> <<>>,
   user_means |-> <<>>, item_means |-> <<>>,
   user_similarity |-> <<>>, item_similarity |-> <<>>]

\* a faulty filter: the threshold of lines 135 and 171 left out
AnyNumber(similarity) == ~IsNaN(similarity)

\* a faulty choice of the similarity function: the configured metric ignored
pearson_always(metric, vec1, vec2) == pearson_correlation(vec1, vec2)

similarity_func(metric, vec1, vec2) ==
  IF metric = "cosine" THEN cosine_similarity(vec1, vec2)
  ELSE pearson_correlation(vec1, vec2)

\* the loop body of lines 65-78: one rating into both matrices
AddRating(m, rating) ==
  [user_item_ratings |->
     DPut(m.user_item_ratings, rating.user_id,
          DPut(DGet(m.user_item_ratings, rating.user_id, <<>>), rating.item_id, rating.value)),
   item_user_ratings |->
     DPut(m.item_user_ratings, rating.item_id,
          DPut(DGet(m.item_user_ratings, rating.item_id, <<>>), rating.user_id, rating.value))]

\* a faulty mean: the rating matrix is not looked at
NoMean(ratings) == QInt(0)

\* sum(ratings.values()) / len(ratings), 0.0 for no ratings
MeanOf(ratings) ==
  IF ratings /= <<>>
  THEN QDiv(FoldSeq(LAMBDA acc, e : QAdd(acc, e[2]), QInt(0), ratings), QInt(Len(ratings)))
  ELSE QInt(0)
Means(matrix) == [i \in DOMAIN matrix |-> <<matrix[i][1], MeanOf(matrix[i][2])>>]

\* the vector of one row of a matrix over all columns, 0.0 where unrated
RowVector(row, columns) == [k \in DOMAIN columns |-> DGet(row, columns[k], QInt(0))]

\* Only store significant similarities
Significant(similarity) == ~IsNaN(similarity) /\ QGt(similarity, Q(1, 10))

\* lines 135-136 (users) and 171-172 (items): a similarity into a row of the table
StoreSimilarity(row, key, similarity) ==
  IF Significant(similarity) THEN Append(row, <<key, similarity>>) ELSE row

\* lines 124-136 and 160-172: the row of the table for the i-th key
SimilarityRow(metric, all_rows, vectors, i) ==
  FoldSeq(LAMBDA row, j :
            IF i = j THEN row
            ELSE StoreSimilarity(row, all_rows[j],
                                 similarity_func(metric, vectors[i], vectors[j])),
          <<>>, [j \in DOMAIN all_rows |-> j])

\* lines 114-120 and 150-156: every row as a vector over all columns
RowVectors(matrix, all_columns) ==
  [i \in DOMAIN matrix |-> RowVector(matrix[i][2], all_columns)]

SimilarityRows(metric, all_rows, vectors) ==
  [i \in DOMAIN all_rows |-> <<all_rows[i], SimilarityRow(metric, all_rows, vectors, i)>>]

\* lines 107-136 (users) and 143-172 (items): the table of one matrix
SimilarityTable(metric, matrix) ==
  SimilarityRows(metric, DKeys(matrix),
                 RowVectors(matrix,
                            SortedSeq(UNION {DKeySet(matrix[i][2]) : i \in DOMAIN matrix})))

\* a faulty _compute_user_similarities: line 105's reset of the table left out
extend_user_similarities(e) ==
  [e EXCEPT !.user_similarity =
     e.user_similarity \o SimilarityTable(e.similarity_metric, e.user_item_ratings)]

compute_user_similarities(e) ==
  [e EXCEPT !.user_similarity = SimilarityTable(e.similarity_metric, e.user_item_ratings)]

\* a faulty _compute_item_similarities: line 141's reset of the table left out
extend_item_similarities(e) ==
  [e EXCEPT !.item_similarity =
     e.item_similarity \o SimilarityTable(e.similarity_metric, e.item_user_ratings)]

compute_item_similarities(e) ==
  [e EXCEPT !.item_similarity = SimilarityTable(e.similarity_metric, e.item_user_ratings)]

\* a faulty train: the resets of lines 56-59 left out, m merged into the old tables
KeepMatrices(e, m) ==
  [e EXCEPT !.user_item_ratings =
              FoldSeq(LAMBDA d, row : DPut(d, row[1], row[2]), e.user_item_ratings,
                      m.user_item_ratings),
            !.item_user_ratings =
              FoldSeq(LAMBDA d, row : DPut(d, row[1], row[2]), e.item_user_ratings,
                      m.item_user_ratings),
            !.user_means =
              FoldSeq(LAMBDA d, row : DPut(d, row[1], row[2]), e.user_means,
                      Means(m.user_item_ratings)),
            !.item_means =
              FoldSeq(LAMBDA d, row : DPut(d, row[1], row[2]), e.item_means,
                      Means(m.item_user_ratings))]

\* lines 56-59 and 81-92: the tables reset to the matrices m and their means
WithMatrices(e, m) ==
  [e EXCEPT !.user_item_ratings = m.user_item_ratings,
            !.item_user_ratings = m.item_user_ratings,
            !.user_means = Means(m.user_item_ratings),
            !.item_means = Means(m.item_user_ratings)]

\* lines 95-98
WithSimilarities(e) ==
  IF e.method = "user-based" THEN compute_user_similarities(e)
  ELSE compute_item_similarities(e)

CFTrain(e, data) ==
  WithSimilarities(
    WithMatrices(e, FoldSeq(AddRating,
                            [user_item_ratings |-> <<>>, item_user_ratings |-> <<>>],
                            data.ratings)))

\* a faulty prediction: the clamp of lines 239 and 281 left out
Unclamped(prediction) == prediction

\* max(0.5, min(5.0, prediction))
Clamp(prediction) == QMax(Q(1, 2), QMin(QInt(5), prediction))

\* a faulty loop body: the skip of rated items (lines 218-219) left out
AccumulateRated(rated_items, similarity, other_user_mean, predictions, e) ==
  DPut(predictions, e[1],
       <<QAdd(DGet(predictions, e[1], <<QInt(0), QInt(0)>>)[1],
              QMul(similarity, QSub(e[2], other_user_mean))),
         QAdd(DGet(predictions, e[1], <<QInt(0), QInt(0)>>)[2], QAbs(similarity))>>)

\* lines 217-229: one rating of a similar user into the running sums
Accumulate(rated_items, similarity, other_user_mean, predictions, e) ==
  IF e[1] \in rated_items THEN predictions
  ELSE LET old == DGet(predictions, e[1], <<QInt(0), QInt(0)>>)
           adjusted_rating == QSub(e[2], other_user_mean)
       IN  DPut(predictions, e[1],
                <<QAdd(old[1], QMul(similarity, adjusted_rating)),
                  QAdd(old[2], QAbs(similarity))>>)

user_based_recommendations(e, user_id, limit) ==
  LET user_ratings == DGet(e.user_item_ratings, user_id, <<>>)
      rated_items == DKeySet(user_ratings)
      similar_users == DGet(e.user_similarity, user_id, <<>>)
      user_mean == DGet(e.user_means, user_id, QInt(0))
      predictions ==
        FoldSeq(LAMBDA preds, su :
                  FoldSeq(LAMBDA p, r :
                            Accumulate(rated_items, su[2],
                                       DGet(e.user_means, su[1], QInt(0)), p, r),
                          preds, DGet(e.user_item_ratings, su[1], <<>>)),
                <<>>, SortDesc(similar_users))
      with_signal == SelectSeq(predictions, LAMBDA p : QGt(p[2][2], QInt(0)))
      final_predictions ==
        [i \in DOMAIN with_signal |->
           <<with_signal[i][1],
             Clamp(QAdd(user_mean, FDiv(with_signal[i][2][1], with_signal[i][2][2])))>>]
  IN  IF user_ratings = <<>> THEN <<>>
      ELSE IF similar_users = <<>> THEN <<>>
      ELSE Slice(SortDesc(final_predictions), limit)

\* lines 265-282: the prediction of one unrated item, <<>> when it has none
ItemPrediction(e, user_ratings, item_id) ==
  LET similar_items == DGet(e.item_similarity, item_id, <<>>)
      used == SelectSeq(similar_items, LAMBDA si : DHas(user_ratings, si[1]))
      weighted_sum ==
        FoldSeq(LAMBDA acc, si : QAdd(acc, QMul(si[2], DGet(user_ratings, si[1], QInt(0)))),
                QInt(0), used)
      similarity_sum == FoldSeq(LAMBDA acc, si : QAdd(acc, QAbs(si[2])), QInt(0), used)
  IN  IF similar_items = <<>> THEN <<>>
      ELSE IF QGt(similarity_sum, QInt(0))
      THEN <<<<item_id, Clamp(FDiv(weighted_sum, similarity_sum))>>>>
      ELSE <<>>

\* a faulty item-based path: the rated items (line 258) are predicted too
item_based_with_rated(e, user_id, limit) ==
  LET user_ratings == DGet(e.user_item_ratings, user_id, <<>>)
      predictions ==
        FoldSeq(LAMBDA acc, item_id : acc \o ItemPrediction(e, user_ratings, item_id),
                <<>>, SortedSeq(DKeySet(e.item_user_ratings)))
  IN  IF user_ratings = <<>> THEN <<>>
      ELSE Slice(SortDesc(predictions), limit)

item_based_recommendations(e, user_id, limit) ==
  LET user_ratings == DGet(e.user_item_ratings, user_id, <<>>)
      rated_items == DKeySet(user_ratings)
      all_items == DKeySet(e.item_user_ratings)
      predict_items == SortedSeq(all_items \ rated_items)
      predictions ==
        FoldSeq(LAMBDA acc, item_id : acc \o ItemPrediction(e, user_ratings, item_id),
                <<>>, predict_items)
  IN  IF user_ratings = <<>> THEN <<>>
      ELSE Slice(SortDesc(predictions), limit)

CFRecommend(e, user_id, limit) ==
  IF e.method = "user-based" THEN user_based_recommendations(e, user_id, limit)
  ELSE item_based_recommendations(e, user_id, limit)

(***************************************************************************)
(* Strings.  A name is a sequence of tokens; "category_" is a token of its *)
(* own, so that f"category_{category}", startswith("category_") and a      *)
(* clash between an attribute name and a category feature are what they    *)
(* are in the code.  Alphabet lists the tokens in Python's string order.   *)
(***************************************************************************)
Alphabet ==
  <<"action", "budget", "category_", "comedy", "drama", "length", "romance",
    "sci-fi", "thriller", "year">>
TokenRank(t) == CHOOSE i \in DOMAIN Alphabet : Alphabet[i] = t
S(t) == <<t>>

RECURSIVE StrLt(_, _)
StrLt(a, b) ==
  IF b = <<>> THEN FALSE
  ELSE IF a = <<>> THEN TRUE
  ELSE IF Head(a) /= Head(b) THEN TokenRank(Head(a)) < TokenRank(Head(b))
  ELSE StrLt(Tail(a), Tail(b))

\* sorted(list(a set of names))
RECURSIVE SortedNames(_)
SortedNames(names) ==
  IF names = {} THEN <<>>
  ELSE LET m == CHOOSE a \in names : \A b \in names \ {a} : StrLt(a, b)
       IN  <<m>> \o SortedNames(names \ {m})

\* f"category_{category}"
category_feature(category) == <<"category_">> \o category

(***************************************************************************)
(* services/content_based.py                                               *)
(* An item is [id, name, categories, features], a user [id, preferences];  *)
(* features and preferences are dicts.                                     *)
(***************************************************************************)
ContentBased ==
  [users |-> <<>>, user_profiles |-> <<>>, item_features |-> <<>>,
   feature_list |-> <<>>, user_item_ratings |-> <<>>]

\* lines 57-71
FeatureList(items) ==
  LET feature_set == UNION {DKeySet(items[i].features) : i \in DOMAIN items}
      category_set ==
        UNION {{category_feature(c) : c \in Range(items[i].categories)} : i \in DOMAIN items}
  IN  SortedNames(feature_set) \o SortedNames(category_set)

\* lines 77-86: one item's feature dict
ItemFeatures(item) ==
  FoldSeq(LAMBDA d, c : DPut(d, category_feature(c), QInt(1)),
          FoldSeq(LAMBDA d, f : DPut(d, f[1], f[2]), <<>>, item.features),
          item.categories)

\* a faulty _build_user_profiles loop body: the explicit preferences (lines
\* 123-129) left out
UnseededProfile(e, user_id, ratings) ==
  LET normalized_weight(rating) == QDiv(QSub(rating, QInt(1)), QInt(4))
      liked == SelectSeq(ratings, LAMBDA r : ~QLe(normalized_weight(r[2]), QInt(0)))
      total_rating_weight ==
        FoldSeq(LAMBDA acc, r : QAdd(acc, normalized_weight(r[2])), QInt(0), liked)
      aggregated ==
        FoldSeq(LAMBDA d, r :
                  FoldSeq(LAMBDA d2, f :
                            DPut(d2, f[1],
                                 QAdd(DGet(d2, f[1], QInt(0)),
                                      QMul(f[2], normalized_weight(r[2])))),
                          d, DGet(e.item_features, r[1], <<>>)),
                <<>>, liked)
  IN  IF QGt(total_rating_weight, QInt(0))
      THEN [i \in DOMAIN aggregated |->
              <<aggregated[i][1], QDiv(aggregated[i][2], total_rating_weight)>>]
      ELSE aggregated

\* lines 120-155: the profile of one user from its ratings
UserProfile(e, user_id, ratings) ==
  LET known == SelectSeq(e.users, LAMBDA u : u.id = user_id)
      seeded ==
        IF known /= <<>> /\ known[1].preferences /= <<>>
        THEN FoldSeq(LAMBDA d, p : DPut(d, category_feature(p[1]), p[2]),
                     <<>>, known[1].preferences)
        ELSE <<>>
      normalized_weight(rating) == QDiv(QSub(rating, QInt(1)), QInt(4))
      liked == SelectSeq(ratings, LAMBDA r : ~QLe(normalized_weight(r[2]), QInt(0)))
      total_rating_weight ==
        FoldSeq(LAMBDA acc, r : QAdd(acc, normalized_weight(r[2])), QInt(0), liked)
      aggregated ==
        FoldSeq(LAMBDA d, r :
                  FoldSeq(LAMBDA d2, f :
                            DPut(d2, f[1],
                                 QAdd(DGet(d2, f[1], QInt(0)),
                                      QMul(f[2], normalized_weight(r[2])))),
                          d, DGet(e.item_features, r[1], <<>>)),
                seeded, liked)
  IN  IF QGt(total_rating_weight, QInt(0))
      THEN [i \in DOMAIN aggregated |->
              <<aggregated[i][1], QDiv(aggregated[i][2], total_rating_weight)>>]
      ELSE aggregated

\* a faulty _build_user_profiles: a profile for every known user, rated or not
build_all_profiles(e) ==
  [e EXCEPT !.user_profiles =
     FoldSeq(LAMBDA profiles, u :
               DPut(profiles, u.id,
                    UserProfile(e, u.id, DGet(e.user_item_ratings, u.id, <<>>))),
             <<>>, e.users)]

build_user_profiles(e) ==
  [e EXCEPT !.user_profiles =
     FoldSeq(LAMBDA profiles, ur :
               IF ur[2] = <<>> THEN profiles
               ELSE DPut(profiles, ur[1], UserProfile(e, ur[1], ur[2])),
             <<>>, e.user_item_ratings)]

CBTrain(e, data) ==
  build_user_profiles(
    [users |-> data.users,
     user_profiles |-> <<>>,
     item_features |->
       FoldSeq(LAMBDA d, item : DPut(d, item.id, ItemFeatures(item)), <<>>, data.items),
     feature_list |-> FeatureList(data.items),
     user_item_ratings |->
       FoldSeq(LAMBDA d, r :
                 DPut(d, r.user_id, DPut(DGet(d, r.user_id, <<>>), r.item_id, r.value)),
               <<>>, data.ratings)])

\* np.array([d.get(feature, 0.0) for feature in self.feature_list])
FeatureVector(e, d) == [k \in DOMAIN e.feature_list |-> DGet(d, e.feature_list[k], QInt(0))]

\* a faulty candidate loop: the skip of rated items (lines 189-190) left out
AllItems(item_features, user_rated_items) == item_features

\* lines 187-190: the items the loop does not skip
Candidates(item_features, user_rated_items) ==
  SelectSeq(item_features, LAMBDA it : it[1] \notin user_rated_items)

CBRecommend(e, user_id, limit) ==
  LET user_profile == DGet(e.user_profiles, user_id, <<>>)
      user_rated_items == DKeySet(DGet(e.user_item_ratings, user_id, <<>>))
      user_vector == FeatureVector(e, user_profile)
      candidates == Candidates(e.item_features, user_rated_items)
      similarities ==
        [i \in DOMAIN candidates |->
           <<candidates[i][1],
             QAdd(QInt(1),
                  QMul(QInt(4),
                       cosine_similarity(user_vector, FeatureVector(e, candidates[i][2]))))>>]
  IN  IF user_profile = <<>> THEN <<>>
      ELSE Slice(SortDesc(similarities), limit)

\* "category_" in feature
IsCategoryName(feature) == "category_" \in Range(feature)

\* feature.replace("category_", "")
display_name(feature) == SelectSeq(feature, LAMBDA t : t /= "category_")

\* the orders in which a for loop can walk a set of strings: the order of a
\* set depends on the strings' hashes, which differ from process to process
RECURSIVE IterationOrders(_)
IterationOrders(names) ==
  IF names = {} THEN {<<>>}
  ELSE UNION {{<<a>> \o rest : rest \in IterationOrders(names \ {a})} : a \in names}

\* lines 256-272: feature_contributions, common_features walked in a given order
FeatureContributions(user_profile, item_features, common_features) ==
  LET sci_fi_feature == category_feature(S("sci-fi"))
      product(feature) ==
        QMul(DGet(user_profile, feature, QInt(0)), DGet(item_features, feature, QInt(0)))
      shared ==
        FoldSeq(LAMBDA d, feature :
                  IF /\ QGt(DGet(user_profile, feature, QInt(0)), QInt(0))
                     /\ QGt(DGet(item_features, feature, QInt(0)), QInt(0))
                  THEN DPut(d, feature, product(feature))
                  ELSE d,
                <<>>, common_features)
  IN  IF DHas(user_profile, sci_fi_feature) /\ DHas(item_features, sci_fi_feature)
      THEN DPut(shared, sci_fi_feature, QMul(product(sci_fi_feature), QInt(10)))
      ELSE shared

\* lines 275-282: all_features
AllFeatures(feature_contributions) ==
  LET sorted_features == SortDesc(feature_contributions)
      boosted == [k \in DOMAIN sorted_features |->
                    <<sorted_features[k][1], QMul(sorted_features[k][2], QInt(5))>>]
      category_features == SelectSeq(boosted, LAMBDA p : IsCategoryName(p[1]))
      other_features == SelectSeq(sorted_features, LAMBDA p : ~IsCategoryName(p[1]))
  IN  SortDesc(category_features \o other_features)

\* lines 285-296: top_feature_list
TopFeatureList(all_features, top_features) ==
  LET cat_features == SelectSeq(all_features, LAMBDA p : IsCategoryName(p[1]))
      top_feature_list == IF cat_features /= <<>> THEN <<cat_features[1]>> ELSE <<>>
      remaining_features ==
        Slice(SelectSeq(all_features, LAMBDA p : p \notin Range(top_feature_list)),
              top_features - Len(top_feature_list))
  IN  top_feature_list \o remaining_features

\* lines 299-311: the entries of the explanation
Explanation(user_profile, item_features, top_feature_list) ==
  [top_features |->
     [k \in DOMAIN top_feature_list |->
        [feature |-> top_feature_list[k][1],
         display_name |-> display_name(top_feature_list[k][1]),
         user_preference |-> DGet(user_profile, top_feature_list[k][1], QInt(0)),
         item_value |-> DGet(item_features, top_feature_list[k][1], QInt(0)),
         contribution |-> top_feature_list[k][2]]]]

NoExplanation == [explanation |-> "No data available for explanation"]

\* set(user_profile.keys()) & set(item_features.keys())
CommonFeatures(e, user_id, item_id) ==
  DKeySet(DGet(e.user_profiles, user_id, <<>>)) \cap DKeySet(DGet(e.item_features, item_id, <<>>))

\* explain_recommendation(user_id, item_id, top_features), where the loop of
\* line 257 walks common_features in the order given
explain_recommendation(e, user_id, item_id, top_features, common_features) ==
  LET user_profile == DGet(e.user_profiles, user_id, <<>>)
      item_features == DGet(e.item_features, item_id, <<>>)
  IN  IF user_profile = <<>> \/ item_features = <<>> THEN NoExplanation
      ELSE Explanation(user_profile, item_features,
                       TopFeatureList(
                         AllFeatures(
                           FeatureContributions(user_profile, item_features, common_features)),
                         top_features))

(***************************************************************************)
(* Text.  A text is a sequence of pieces: single characters where the code *)
(* looks at characters (digits, punctuation, quotes), and the tokens of    *)
(* Alphabet, which hold none of those characters.                          *)
(***************************************************************************)
Digits == <<"0", "1", "2", "3", "4", "5", "6", "7", "8", "9">>
IsDigit(c) == \E i \in DOMAIN Digits : Digits[i] = c
DigitValue(c) == (CHOOSE i \in DOMAIN Digits : Digits[i] = c) - 1

\* str(n) of an int
RECURSIVE NatText(_)
NatText(n) ==
  IF n < 10 THEN <<Digits[n + 1]>> ELSE NatText(n \div 10) \o <<Digits[(n % 10) + 1]>>
IntText(n) == IF n < 0 THEN <<"-">> \o NatText(-n) ELSE NatText(n)

\* the value of a run of digits
RECURSIVE NatValue(_, _)
NatValue(text, acc) ==
  IF text = <<>> THEN acc ELSE NatValue(Tail(text), acc * 10 + DigitValue(Head(text)))

IsNatText(text) == text /= <<>> /\ \A i \in DOMAIN text : IsDigit(text[i])
\* int(text) succeeds
IsIntText(text) ==
  text /= <<>> /\ IsNatText(IF Head(text) \in {"-", "+"} THEN Tail(text) ELSE text)
\* int(text)
IntValue(text) ==
  IF Head(text) = "-" THEN -NatValue(Tail(text), 0)
  ELSE IF Head(text) = "+" THEN NatValue(Tail(text), 0)
  ELSE NatValue(text, 0)

\* the digits after the point of rem / d, for a number that has a finite
\* decimal expansion
RECURSIVE FractionText(_, _)
FractionText(rem, d) ==
  IF rem = 0 THEN <<>>
  ELSE <<Digits[((rem * 10) \div d) + 1]>> \o FractionText((rem * 10) % d, d)

\* repr(x) of a float, which str(x), csv.writer and json.dumps write
FloatText(x) ==
  IF IsNaN(x) THEN <<"nan">>
  ELSE LET n == Abs(x[1])
           fraction == FractionText(n % x[2], x[2])
       IN  (IF x[1] < 0 THEN <<"-">> ELSE <<>>) \o NatText(n \div x[2]) \o <<".">>
             \o (IF fraction = <<>> THEN <<"0">> ELSE fraction)

\* the position of the first c in text, 0 when there is none
IndexOf(text, c) ==
  IF \E i \in DOMAIN text : text[i] = c
  THEN CHOOSE i \in DOMAIN text : text[i] = c /\ \A j \in 1..(i - 1) : text[j] /= c
  ELSE 0

\* float(text) succeeds
IsFloatText(text) ==
  \/ text = <<"nan">>
  \/ LET unsigned == IF text /= <<>> /\ Head(text) \in {"-", "+"} THEN Tail(text) ELSE text
         point == IndexOf(unsigned, ".")
     IN  IF point = 0 THEN IsNatText(unsigned)
         ELSE LET whole == SubSeq(unsigned, 1, point - 1)
                  fraction == SubSeq(unsigned, point + 1, Len(unsigned))
              IN  /\ whole \o fraction /= <<>>
                  /\ \A i \in DOMAIN (whole \o fraction) : IsDigit((whole \o fraction)[i])

RECURSIVE Pow10(_)
Pow10(k) == IF k = 0 THEN 1 ELSE 10 * Pow10(k - 1)

\* float(text)
FloatValue(text) ==
  IF text = <<"nan">> THEN NaN
  ELSE LET negative == Head(text) = "-"
           unsigned == IF Head(text) \in {"-", "+"} THEN Tail(text) ELSE text
           point == IndexOf(unsigned, ".")
           whole == IF point = 0 THEN unsigned ELSE SubSeq(unsigned, 1, point - 1)
           fraction == IF point = 0 THEN <<>> ELSE SubSeq(unsigned, point + 1, Len(unsigned))
           magnitude == Q(NatValue(whole \o fraction, 0), Pow10(Len(fraction)))
       IN  IF negative THEN QNeg(magnitude) ELSE magnitude

\* sep.join(texts)
RECURSIVE Join(_, _)
Join(texts, sep) ==
  IF texts = <<>> THEN <<>>
  ELSE IF Len(texts) = 1 THEN texts[1]
  ELSE texts[1] \o sep \o Join(Tail(texts), sep)

(***************************************************************************)
(* csv: one line of a file is the text of one record (no field of the      *)
(* model holds a line break)                                               *)
(***************************************************************************)
\* a writer that quotes nothing (quoting=csv.QUOTE_NONE without an escape
\* character check)
CsvUnquoted(text) == text

\* csv.writer, QUOTE_MINIMAL: a field holding the delimiter, the quote
\* character or a line break is quoted, its quotes doubled
CsvField(text) ==
  IF \E i \in DOMAIN text : text[i] \in {",", "\"", "\r", "\n"}
  THEN <<"\"">>
         \o FoldSeq(LAMBDA acc, c : acc \o (IF c = "\"" THEN <<"\"", "\"">> ELSE <<c>>),
                    <<>>, text)
         \o <<"\"">>
  ELSE text

\* writer.writerow
CsvLine(fields) == Join([i \in DOMAIN fields |-> CsvField(fields[i])], <<",">>)

\* a scanner run over a text: step applied to each piece in turn, the text
\* taken in runs of eight pieces
RECURSIVE ScanRun(_, _, _)
ScanRun(step(_, _), state, text) ==
  IF text = <<>> \/ state.mode = "invalid" THEN state
  ELSE ScanRun(step, step(state, Head(text)), Tail(text))
RECURSIVE ScanText(_, _, _)
ScanText(step(_, _), state, text) ==
  IF Len(text) <= 8 THEN ScanRun(step, state, text)
  ELSE ScanText(step, ScanRun(step, state, SubSeq(text, 1, 8)), SubSeq(text, 9, Len(text)))

\* csv.reader on one line: the fields read so far, the field being read, and
\* where the reader is: in a field, inside quotes, or after a quote inside
\* quotes (which ends the quoted part unless another quote follows)
CsvStep(state, c) ==
  CASE state.mode = "quoted" ->
         IF c = "\"" THEN [state EXCEPT !.mode = "quote"]
         ELSE [state EXCEPT !.field = Append(@, c)]
    [] state.mode = "quote" /\ c = "\"" ->
         [state EXCEPT !.mode = "quoted", !.field = Append(@, c)]
    [] OTHER ->
         IF c = "," THEN [mode |-> "field", fields |-> Append(state.fields, state.field),
                          field |-> <<>>]
         ELSE IF c = "\"" /\ state.mode = "field" /\ state.field = <<>>
         THEN [state EXCEPT !.mode = "quoted"]
         ELSE [state EXCEPT !.mode = "field", !.field = Append(@, c)]

CsvScanned(line) == ScanText(CsvStep, [mode |-> "field", fields |-> <<>>, field |-> <<>>], line)
CsvFields(line) == Append(CsvScanned(line).fields, CsvScanned(line).field)

\* csv.DictWriter: writeheader, then a row for each record
CsvFile(fieldnames, records) ==
  <<CsvLine(fieldnames)>> \o [i \in DOMAIN records |-> CsvLine(records[i])]

\* csv.DictReader: each line after the first as a dict from the names of the
\* first line to the line's fields, Missing (None) for a field the line lacks
Missing == <<"None">>
CsvRows(file) ==
  LET fieldnames == CsvFields(file[1])
  IN  [i \in 1..(Len(file) - 1) |->
         LET fields == CsvFields(file[i + 1])
         IN  [k \in DOMAIN fieldnames |->
                <<fieldnames[k], IF k <= Len(fields) THEN fields[k] ELSE Missing>>]]

(***************************************************************************)
(* json.dumps and json.loads of lists and dicts of strings and numbers     *)
(***************************************************************************)
\* a str
JsonString(text) ==
  <<"\"">>
    \o FoldSeq(LAMBDA acc, c : acc \o (IF c \in {"\"", "\\"} THEN <<"\\", c>> ELSE <<c>>),
               <<>>, text)
    \o <<"\"">>

\* json.dumps(a list), its items already written
JsonList(items) == <<"[">> \o Join(items, <<",", " ">>) \o <<"]">>

\* json.dumps(a dict), its values already written
JsonDict(d) ==
  <<"{">> \o Join([i \in DOMAIN d |-> JsonString(d[i][1]) \o <<":", " ">> \o d[i][2]],
                  <<",", " ">>)
    \o <<"}">>

\* the scanner of json.loads: the tokens of a text, <<"str", value>> for a
\* string, <<"num", text>> for a number, <<"punct", c>> for punctuation;
\* Invalid for a text that is not JSON
Invalid == <<<<"invalid">>>>
\* a piece outside strings and numbers
JsonPlain(tokens, c) ==
  IF c = " " THEN [mode |-> "", tokens |-> tokens, token |-> <<>>]
  ELSE IF c = "\"" THEN [mode |-> "str", tokens |-> tokens, token |-> <<>>]
  ELSE IF IsDigit(c) \/ c = "-" THEN [mode |-> "num", tokens |-> tokens, token |-> <<c>>]
  ELSE IF c \in {"[", "]", "{", "}", ",", ":"}
  THEN [mode |-> "", tokens |-> Append(tokens, <<"punct", c>>), token |-> <<>>]
  ELSE [mode |-> "invalid", tokens |-> tokens, token |-> <<>>]

JsonStep(state, c) ==
  CASE state.mode = "str" ->
         IF c = "\\" THEN [state EXCEPT !.mode = "escape"]
         ELSE IF c = "\""
         THEN [mode |-> "", tokens |-> Append(state.tokens, <<"str", state.token>>),
               token |-> <<>>]
         ELSE [state EXCEPT !.token = Append(@, c)]
    [] state.mode = "escape" ->
         IF c \in {"\"", "\\"} THEN [state EXCEPT !.mode = "str", !.token = Append(@, c)]
         ELSE [state EXCEPT !.mode = "invalid"]
    [] state.mode = "num" ->
         IF IsDigit(c) \/ c = "." THEN [state EXCEPT !.token = Append(@, c)]
         ELSE JsonPlain(Append(state.tokens, <<"num", state.token>>), c)
    [] OTHER -> JsonPlain(state.tokens, c)

JsonScanned(text) == ScanText(JsonStep, [mode |-> "", tokens |-> <<>>, token |-> <<>>], text)

JsonTokens(text) ==
  IF JsonScanned(text).mode \in {"invalid", "str", "escape"} THEN Invalid
  ELSE IF JsonScanned(text).mode = "num"
  THEN Append(JsonScanned(text).tokens, <<"num", JsonScanned(text).token>>)
  ELSE JsonScanned(text).tokens

\* a token that is a string or a well-formed number
IsJsonValue(token) ==
  \/ token[1] = "str"
  \/ token[1] = "num" /\ IsFloatText(token[2])

\* the value of such a token: the text of a string, the number of a number
JsonValue(token) == IF token[1] = "str" THEN token[2] ELSE FloatValue(token[2])

\* json.loads of the text of a list: the tokens of its items, Invalid when it
\* is not one
JsonListItems(text) ==
  LET tokens == JsonTokens(text)
      inner == SubSeq(tokens, 2, Len(tokens) - 1)
  IN  IF \/ tokens = Invalid
         \/ Len(tokens) < 2
         \/ tokens[1] /= <<"punct", "[">>
         \/ tokens[Len(tokens)] /= <<"punct", "]">>
      THEN Invalid
      ELSE IF inner = <<>> THEN <<>>
      ELSE IF /\ Len(inner) % 2 = 1
              /\ \A k \in DOMAIN inner :
                   IF k % 2 = 1 THEN IsJsonValue(inner[k]) ELSE inner[k] = <<"punct", ",">>
      THEN [k \in 1..((Len(inner) + 1) \div 2) |-> inner[2 * k - 1]]
      ELSE Invalid

\* json.loads of the text of a dict: its keys with the tokens of their values,
\* in the order of the text (a key written twice keeps its last value),
\* Invalid when it is not one
JsonDictItems(text) ==
  LET tokens == JsonTokens(text)
      inner == SubSeq(tokens, 2, Len(tokens) - 1)
  IN  IF \/ tokens = Invalid
         \/ Len(tokens) < 2
         \/ tokens[1] /= <<"punct", "{">>
         \/ tokens[Len(tokens)] /= <<"punct", "}">>
      THEN Invalid
      ELSE IF inner = <<>> THEN <<>>
      ELSE IF /\ Len(inner) % 4 = 3
              /\ \A k \in DOMAIN inner :
                   CASE k % 4 = 1 -> inner[k][1] = "str"
                     [] k % 4 = 2 -> inner[k] = <<"punct", ":">>
                     [] k % 4 = 3 -> IsJsonValue(inner[k])
                     [] OTHER -> inner[k] = <<"punct", ",">>
      THEN FoldSeq(LAMBDA d, k : DPut(d, inner[4 * k - 3][2], inner[4 * k - 1]),
                   <<>>, [k \in 1..((Len(inner) + 1) \div 4) |-> k])
      ELSE Invalid

(***************************************************************************)
(* repositories: a repository's store is the dict id -> entity             *)
(***************************************************************************)
\* rating.id is None
None == 0

\* _get_next_id
get_next_id(store) ==
  IF store = <<>> THEN 1
  ELSE (CHOOSE a \in DKeySet(store) : \A b \in DKeySet(store) : b <= a) + 1

get_all(store) == DValues(store)

\* a faulty lookup: the user's ratings are not found
no_ratings(store, user_id) == <<>>

\* RatingRepository.get_by_user_id
get_by_user_id(store, user_id) == SelectSeq(DValues(store), LAMBDA r : r.user_id = user_id)

\* RatingRepository.get_by_user_and_item: the index of the first match, 0 for None
get_by_user_and_item(store, user_id, item_id) ==
  LET hits == {i \in DOMAIN store :
                 store[i][2].user_id = user_id /\ store[i][2].item_id = item_id}
  IN  IF hits = {} THEN 0 ELSE CHOOSE i \in hits : \A j \in hits : i <= j

\* a faulty save: the rating is stored without looking for one of the same pair
save_without_lookup(store, rating) ==
  LET id == IF rating.id = None THEN get_next_id(store) ELSE rating.id
  IN  DPut(store, id, [rating EXCEPT !.id = id])

\* RatingRepository.save: the store afterwards
RatingSave(store, rating) ==
  LET existing == get_by_user_and_item(store, rating.user_id, rating.item_id)
      id == IF rating.id = None THEN get_next_id(store) ELSE rating.id
  IN  IF existing /= 0
      THEN [store EXCEPT ![existing] = <<store[existing][1],
                                         [store[existing][2] EXCEPT !.value = rating.value]>>]
      ELSE DPut(store, id, [rating EXCEPT !.id = id])

\* RatingRepository.save: the rating it returns
RatingSaved(store, rating) ==
  LET existing == get_by_user_and_item(store, rating.user_id, rating.item_id)
  IN  IF existing /= 0
      THEN [store[existing][2] EXCEPT !.value = rating.value]
      ELSE [rating EXCEPT !.id = IF rating.id = None THEN get_next_id(store) ELSE rating.id]

\* RatingRepository.delete: the store afterwards
RatingDelete(store, rating_id) == SelectSeq(store, LAMBDA e : e[1] /= rating_id)

\* ItemRepository.save: the store afterwards
ItemSave(store, item) ==
  DPut(store, IF item.id = None THEN get_next_id(store) ELSE item.id,
       [item EXCEPT !.id = IF item.id = None THEN get_next_id(store) ELSE item.id])

\* ItemRepository.delete: the store afterwards
ItemDelete(store, item_id) == SelectSeq(store, LAMBDA e : e[1] /= item_id)

\* UserRepository.save: the store afterwards
UserSave(store, user) ==
  LET id == IF user.id = None THEN get_next_id(store) ELSE user.id
  IN  DPut(store, id, [user EXCEPT !.id = id])

\* UserRepository.delete: the store afterwards
UserDelete(store, user_id) == SelectSeq(store, LAMBDA e : e[1] /= user_id)

\* ItemRepository.get_by_id: <<item>>, or <<>> for None
item_get_by_id(store, item_id) ==
  IF DHas(store, item_id) THEN <<DGet(store, item_id, <<>>)>> ELSE <<>>

(***************************************************************************)
(* services/recommendation_service.py                                      *)
(***************************************************************************)
\* a faulty constructor: the content-based engine is built in its own mode only
AlgorithmsWithoutHybrid(algorithm_type) ==
  (IF algorithm_type \in {"collaborative", "hybrid"} THEN <<"collaborative">> ELSE <<>>)
  \o (IF algorithm_type = "content-based" THEN <<"content-based">> ELSE <<>>)

\* the keys of self.algorithms, in insertion order (lines 65-72)
Algorithms(algorithm_type) ==
  (IF algorithm_type \in {"collaborative", "hybrid"} THEN <<"collaborative">> ELSE <<>>)
  \o (IF algorithm_type \in {"content-based", "hybrid"} THEN <<"content-based">> ELSE <<>>)

\* lines 84-88
TrainingData(user_store, item_store, rating_store) ==
  [users |-> get_all(user_store), items |-> get_all(item_store),
   ratings |-> get_all(rating_store)]

\* round(score, 3) for score >= 0: to the nearest 1/1000, ties to even
Round3(score) ==
  LET twice == QMul(QInt(2), score)
      f2 == (((twice[1] \div twice[2]) * 1000) + ScaleFloor(twice[1] % twice[2], twice[2], 1000))
      tie == (1000 % twice[2]) = 0
      k == f2 \div 2
  IN  IF f2 % 2 = 0 THEN Q(k, 1000)
      ELSE IF tie /\ k % 2 = 0 THEN Q(k, 1000)
      ELSE Q(k + 1, 1000)

\* a faulty weight: every engine counted in full
UnitWeight(names) == QInt(1)

\* line 141: weight = 1.0 / len(self.algorithms)
Weight(names) == QDiv(QInt(1), QInt(Len(names)))

\* a faulty query of the engines: limit passed on as it is
EngineCallsUndoubled(names, user_id, limit) ==
  [i \in DOMAIN names |-> [name |-> names[i], user_id |-> user_id, limit |-> limit]]

\* lines 136-138: the calls algorithm.recommend_for_user(user_id, limit=limit * 2),
\* one for each entry of self.algorithms in turn
EngineCalls(names, user_id, limit) ==
  [i \in DOMAIN names |-> [name |-> names[i], user_id |-> user_id, limit |-> limit * 2]]

\* lines 134-149: the merged scores, a dict item_id -> score
MergedRecommendations(names, cfe, cbe, user_rated_items, user_id, limit, exclude_rated) ==
  LET weight == Weight(names)
      algorithm_recs(call) ==
        IF call.name = "collaborative" THEN CFRecommend(cfe, call.user_id, call.limit)
        ELSE CBRecommend(cbe, call.user_id, call.limit)
  IN  FoldSeq(LAMBDA all, call :
                FoldSeq(LAMBDA acc, rec :
                          IF exclude_rated /\ rec[1] \in user_rated_items THEN acc
                          ELSE DPut(acc, rec[1],
                                    QAdd(DGet(acc, rec[1], QInt(0)), QMul(rec[2], weight))),
                        all, algorithm_recs(call)),
              <<>>, EngineCalls(names, user_id, limit))

\* a faulty resolution: the items are resolved first and the list is cut afterwards
ResolveThenTruncate(item_store, merged, limit) ==
  Slice(FoldSeq(LAMBDA out, rec :
                  IF DHas(item_store, rec[1])
                  THEN Append(out, [item_id |-> rec[1],
                                    name |-> DGet(item_store, rec[1], <<>>).name,
                                    score |-> Round3(rec[2]),
                                    categories |-> DGet(item_store, rec[1], <<>>).categories])
                  ELSE out,
                <<>>, SortDesc(merged)),
        limit)

\* lines 152-168: sort, truncate, attach the item's details
ResolveItems(item_store, merged, limit) ==
  LET sorted_recommendations == Slice(SortDesc(merged), limit)
  IN  FoldSeq(LAMBDA out, rec :
                LET item == item_get_by_id(item_store, rec[1])
                IN  IF item /= <<>>
                    THEN Append(out, [item_id |-> rec[1], name |-> item[1].name,
                                      score |-> Round3(rec[2]),
                                      categories |-> item[1].categories])
                    ELSE out,
              <<>>, sorted_recommendations)

\* lines 127-130: the ids of the items the user has rated, read from the repository
UserRatedItems(rating_store, user_id, exclude_rated) ==
  IF exclude_rated
  THEN {r.item_id : r \in Range(get_by_user_id(rating_store, user_id))}
  ELSE {}

\* the returned list, with the local all_recommendations it was made from
Returned(item_store, all_recommendations, limit) ==
  [all_recommendations |-> all_recommendations,
   value |-> ResolveItems(item_store, all_recommendations, limit)]

get_recommendations_for_user(names, cfe, cbe, item_store, rating_store, user_id, limit, exclude_rated) ==
  Returned(item_store,
           MergedRecommendations(names, cfe, cbe,
                                 UserRatedItems(rating_store, user_id, exclude_rated),
                                 user_id, limit, exclude_rated),
           limit)

(***************************************************************************)
(* Data: the fixtures of the repository's tests, and variations of them    *)
(***************************************************************************)
Rating(id, user_id, item_id, value) ==
  [id |-> id, user_id |-> user_id, item_id |-> item_id, value |-> value]
\* an item named "Movie <id>", as the fixture names its items
Item(id, categories, features) ==
  [id |-> id, name |-> <<"Movie", " ">> \o NatText(id), categories |-> categories,
   features |-> features]
\* a user named "user<id>", with no history
User(id, preferences) ==
  [id |-> id, username |-> <<"u", "s", "e", "r">> \o NatText(id), preferences |-> preferences,
   history |-> <<>>]

\* tests/test_services/test_collaborative_filtering.py, setUp
ScenarioRatings ==
  <<Rating(1, 1, 1, QInt(5)), Rating(2, 1, 2, QInt(4)), Rating(3, 1, 3, QInt(2)),
    Rating(4, 2, 1, QInt(3)), Rating(5, 2, 2, QInt(4)), Rating(6, 2, 4, QInt(5)),
    Rating(7, 3, 1, QInt(4)), Rating(8, 3, 3, QInt(3)), Rating(9, 3, 4, QInt(4))>>

\* tests/test_services/test_content_based.py, setUp
Attributes(length, year, budget) ==
  <<<<S("length"), QInt(length)>>, <<S("year"), QInt(year)>>, <<S("budget"), QInt(budget)>>>>
FixtureItems ==
  <<Item(1, <<S("action"), S("sci-fi")>>, Attributes(120, 2020, 100)),
    Item(2, <<S("comedy"), S("romance")>>, Attributes(95, 2021, 50)),
    Item(3, <<S("action"), S("thriller")>>, Attributes(130, 2019, 150)),
    Item(4, <<S("sci-fi"), S("thriller")>>, Attributes(140, 2022, 200))>>
FixtureUsers ==
  <<User(1, <<<<S("action"), Q(8, 10)>>, <<S("sci-fi"), Q(6, 10)>>>>),
    User(2, <<<<S("comedy"), Q(9, 10)>>, <<S("romance"), Q(7, 10)>>>>),
    User(3, <<<<S("action"), Q(5, 10)>>, <<S("thriller"), Q(8, 10)>>>>)>>
FixtureRatings ==
  <<Rating(1, 1, 1, QInt(5)), Rating(2, 1, 3, QInt(4)), Rating(3, 2, 2, QInt(5)),
    Rating(4, 3, 3, Q(9, 2)), Rating(5, 3, 4, QInt(4))>>

\* the same items carrying categories only, and users without preferences
CategoryItems == [i \in DOMAIN FixtureItems |-> [FixtureItems[i] EXCEPT !.features = <<>>]]
PlainUsers == [i \in DOMAIN FixtureUsers |-> [FixtureUsers[i] EXCEPT !.preferences = <<>>]]

\* ratings at and below the bottom of the 1-5 scale, and a rating of 0
LowRatings ==
  <<Rating(1, 1, 1, QInt(5)), Rating(2, 1, 2, QInt(1)), Rating(3, 2, 2, Q(1, 2)),
    Rating(4, 2, 3, QInt(1)), Rating(5, 3, 1, QInt(0)), Rating(6, 3, 4, QInt(3))>>

Data(users, items, ratings) == [users |-> users, items |-> items, ratings |-> ratings]
EmptyData == Data(<<>>, <<>>, <<>>)

RemoveAt(s, k) == SubSeq(s, 1, k - 1) \o SubSeq(s, k + 1, Len(s))

\* what train is called with when the engines are used without the service
TrainingInputs ==
  {EmptyData,
   Data(<<>>, <<>>, ScenarioRatings),
   Data(FixtureUsers, FixtureItems, FixtureRatings),
   Data(FixtureUsers, CategoryItems, FixtureRatings),
   Data(PlainUsers, CategoryItems, FixtureRatings),
   Data(FixtureUsers, CategoryItems, LowRatings),
   Data(PlainUsers, FixtureItems, LowRatings),
   Data(FixtureUsers, FixtureItems, RemoveAt(FixtureRatings, 3)),
   Data(PlainUsers, CategoryItems, RemoveAt(ScenarioRatings, 3))}

\* a store holding the entities of a list, keyed by id
StoreOf(entities) == [i \in DOMAIN entities |-> <<entities[i].id, entities[i]>>]

\* what the repositories hold when the service is constructed
InitialData ==
  {EmptyData,
   Data(FixtureUsers, CategoryItems, ScenarioRatings),
   Data(FixtureUsers, FixtureItems, FixtureRatings)}

\* bounds of the exploration
MaxOps == 1
MaxCalls == 3
MaxUser == 4
DefaultLimit == 10
QueryUsers == 1..MaxUser
Limits == {-1, 0, 1, DefaultLimit}
SaveInputs == {Rating(None, 1, 4, QInt(5)), Rating(None, 2, 3, QInt(5))}
DeleteIds == {1}
\* item 4 of the fixture under another name and in another category
ItemInputs == {[Item(4, <<S("comedy")>>, <<>>) EXCEPT !.name = <<"Movie", " ", "4", "0">>]}
DeleteItemIds == {4}

AlgorithmTypes == {"collaborative", "content-based", "hybrid"}
\* the engines are constructed and called by the caller itself
NoService == "no service"
Methods == {"user-based", "item-based"}
Metrics == {"cosine", "pearson"}

(***************************************************************************)
(* repositories: the csv files.  A file is the sequence of its lines, the  *)
(* header first; NoFile when the data directory holds no such file.  The   *)
(* timestamp column of ratings.csv is left out, as the timestamp of a      *)
(* rating is.                                                              *)
(***************************************************************************)
NoFile == <<<<"no file">>>>
Field(name) == <<name>>

\* RatingRepository.save_all
WriteRatings(store) ==
  CsvFile(<<Field("id"), Field("user_id"), Field("item_id"), Field("value")>>,
          [i \in DOMAIN store |->
             <<IntText(store[i][2].id), IntText(store[i][2].user_id),
               IntText(store[i][2].item_id), FloatText(store[i][2].value)>>])

\* RatingRepository._load_ratings: a row that int, float or Rating rejects
\* raises, and the repository is left empty
RatingRowLoads(row) ==
  /\ \A name \in {"id", "user_id", "item_id"} :
       /\ DGet(row, Field(name), Missing) /= Missing
       /\ IsIntText(DGet(row, Field(name), Missing))
  /\ DGet(row, Field("value"), Missing) /= Missing
  /\ IsFloatText(DGet(row, Field("value"), Missing))
  /\ ~QLt(FloatValue(DGet(row, Field("value"), Missing)), QInt(0))
  /\ ~QGt(FloatValue(DGet(row, Field("value"), Missing)), QInt(5))

LoadRatings(file) ==
  IF file = NoFile THEN <<>>
  ELSE IF \E i \in DOMAIN CsvRows(file) : ~RatingRowLoads(CsvRows(file)[i]) THEN <<>>
  ELSE FoldSeq(LAMBDA store, row :
                 DPut(store, IntValue(DGet(row, Field("id"), Missing)),
                      Rating(IntValue(DGet(row, Field("id"), Missing)),
                             IntValue(DGet(row, Field("user_id"), Missing)),
                             IntValue(DGet(row, Field("item_id"), Missing)),
                             FloatValue(DGet(row, Field("value"), Missing)))),
               <<>>, CsvRows(file))

\* ItemRepository.save_all
WriteItems(store) ==
  CsvFile(<<Field("id"), Field("name"), Field("categories"), Field("features")>>,
          [i \in DOMAIN store |->
             <<IntText(store[i][2].id),
               store[i][2].name,
               JsonList([k \in DOMAIN store[i][2].categories |->
                           JsonString(store[i][2].categories[k])]),
               JsonDict([k \in DOMAIN store[i][2].features |->
                           <<store[i][2].features[k][1],
                             JsonString(FloatText(store[i][2].features[k][2]))>>])>>])

\* lines 54-59: the categories of a row
LoadedCategories(text) ==
  IF text \in {Missing, <<>>} \/ JsonListItems(text) = Invalid THEN <<>>
  ELSE [k \in DOMAIN JsonListItems(text) |-> JsonValue(JsonListItems(text)[k])]

\* float(v) succeeds for the value of a token
IsFloatToken(token) == IsFloatText(token[2])

\* lines 61-68: the features of a row; when float rejects a value, features
\* is left as json.loads gave it
LoadedFeatures(text) ==
  IF text \in {Missing, <<>>} \/ JsonDictItems(text) = Invalid THEN <<>>
  ELSE [k \in DOMAIN JsonDictItems(text) |->
          <<JsonDictItems(text)[k][1],
            IF \A j \in DOMAIN JsonDictItems(text) : IsFloatToken(JsonDictItems(text)[j][2])
            THEN FloatValue(JsonDictItems(text)[k][2][2])
            ELSE JsonValue(JsonDictItems(text)[k][2])>>]

\* ItemRepository._load_items: a row that int or Item rejects raises, and the
\* repository is left empty
ItemRowLoads(row) ==
  /\ DGet(row, Field("id"), Missing) /= Missing
  /\ IsIntText(DGet(row, Field("id"), Missing))
  /\ DGet(row, Field("name"), Missing) \notin {Missing, <<>>}

LoadItems(file) ==
  IF file = NoFile THEN <<>>
  ELSE IF \E i \in DOMAIN CsvRows(file) : ~ItemRowLoads(CsvRows(file)[i]) THEN <<>>
  ELSE FoldSeq(LAMBDA store, row :
                 DPut(store, IntValue(DGet(row, Field("id"), Missing)),
                      [id |-> IntValue(DGet(row, Field("id"), Missing)),
                       name |-> DGet(row, Field("name"), Missing),
                       categories |-> LoadedCategories(DGet(row, Field("categories"), Missing)),
                       features |-> LoadedFeatures(DGet(row, Field("features"), Missing))]),
               <<>>, CsvRows(file))

\* UserRepository.save_all
WriteUsers(store) ==
  CsvFile(<<Field("id"), Field("username"), Field("preferences"), Field("history")>>,
          [i \in DOMAIN store |->
             <<IntText(store[i][2].id),
               store[i][2].username,
               JsonDict([k \in DOMAIN store[i][2].preferences |->
                           <<store[i][2].preferences[k][1],
                             FloatText(store[i][2].preferences[k][2])>>]),
               JsonList([k \in DOMAIN store[i][2].history |->
                           IntText(store[i][2].history[k])])>>])

\* lines 54-59: the preferences of a row
LoadedPreferences(text) ==
  IF text \in {Missing, <<>>} \/ JsonDictItems(text) = Invalid THEN <<>>
  ELSE [k \in DOMAIN JsonDictItems(text) |->
          <<JsonDictItems(text)[k][1], JsonValue(JsonDictItems(text)[k][2])>>]

\* lines 61-66: the history of a row, [int(x) for x in json.loads(...)]
LoadedHistory(text) ==
  IF text \in {Missing, <<>>} \/ JsonListItems(text) = Invalid THEN <<>>
  ELSE IF \E k \in DOMAIN JsonListItems(text) : ~IsIntText(JsonListItems(text)[k][2]) THEN <<>>
  ELSE [k \in DOMAIN JsonListItems(text) |-> IntValue(JsonListItems(text)[k][2])]

\* UserRepository._load_users: a row that int or User rejects raises, and the
\* repository is left empty
UserRowLoads(row) ==
  /\ DGet(row, Field("id"), Missing) /= Missing
  /\ IsIntText(DGet(row, Field("id"), Missing))
  /\ DGet(row, Field("username"), Missing) /= Missing
  /\ Len(DGet(row, Field("username"), Missing)) >= 3

LoadUsers(file) ==
  IF file = NoFile THEN <<>>
  ELSE IF \E i \in DOMAIN CsvRows(file) : ~UserRowLoads(CsvRows(file)[i]) THEN <<>>
  ELSE FoldSeq(LAMBDA store, row :
                 DPut(store, IntValue(DGet(row, Field("id"), Missing)),
                      [id |-> IntValue(DGet(row, Field("id"), Missing)),
                       username |-> DGet(row, Field("username"), Missing),
                       preferences |-> LoadedPreferences(DGet(row, Field("preferences"), Missing)),
                       history |-> LoadedHistory(DGet(row, Field("history"), Missing))]),
               <<>>, CsvRows(file))

(***************************************************************************)
(* State                                                                   *)
(***************************************************************************)
VARIABLES
  ratings,         \* RatingRepository.ratings
  items,           \* ItemRepository.items
  users,           \* UserRepository.users
  algorithm_type,  \* RecommendationService.algorithm_type, or NoService
  algorithms,      \* the names of the engines that exist
  cf,              \* the CollaborativeFiltering engine
  cb,              \* the ContentBased engine
  trained,         \* the data of the engines' latest train call, <<>> before it
  previous,        \* the data of the train call before the latest, <<>> before it
  ops,             \* the number of repository writes so far
  files,           \* the csv files of the data directory: [ratings, items, users]
  result           \* the value the latest call returned, until the caller takes it

vars ==
  <<ratings, items, users, algorithm_type, algorithms, cf, cb, trained, previous, ops, files,
    result>>

NoResult == [op |-> "none"]

\* a faulty _train_algorithms: only the first engine is trained
FirstEngineOnly(names, data) == <<[name |-> names[1], data |-> data]>>

\* _train_algorithms, lines 91-93: the calls algorithm.train(training_data), one
\* for each entry of self.algorithms in turn
TrainCalls(names, data) == [i \in DOMAIN names |-> [name |-> names[i], data |-> data]]

\* the engines after those calls
TrainCF(calls, cfe) ==
  FoldSeq(LAMBDA e, call : IF call.name = "collaborative" THEN CFTrain(e, call.data) ELSE e,
          cfe, calls)
TrainCB(calls, cbe) ==
  FoldSeq(LAMBDA e, call : IF call.name = "content-based" THEN CBTrain(e, call.data) ELSE e,
          cbe, calls)

\* a data directory without files
NoFiles == [ratings |-> NoFile, items |-> NoFile, users |-> NoFile]

\* RecommendationService.__init__ on repositories holding d
InitService(type, d) ==
  /\ users = StoreOf(d.users)
  /\ items = StoreOf(d.items)
  /\ ratings = StoreOf(d.ratings)
  /\ algorithm_type = type
  /\ algorithms = Algorithms(type)
  /\ cf = TrainCF(TrainCalls(Algorithms(type), d), CollaborativeFiltering("user-based", "cosine"))
  /\ cb = TrainCB(TrainCalls(Algorithms(type), d), ContentBased)
  /\ trained = <<d>>
  /\ previous = <<>>
  /\ files = [ratings |-> WriteRatings(StoreOf(d.ratings)), items |-> WriteItems(StoreOf(d.items)),
              users |-> WriteUsers(StoreOf(d.users))]

\* one engine constructed by the caller, not yet trained
InitEngine(name, method, metric) ==
  /\ users = <<>>
  /\ items = <<>>
  /\ ratings = <<>>
  /\ algorithm_type = NoService
  /\ algorithms = <<name>>
  /\ cf = CollaborativeFiltering(method, metric)
  /\ cb = ContentBased
  /\ trained = <<>>
  /\ previous = <<>>
  /\ files = NoFiles

Init ==
  /\ ops = 0
  /\ result = NoResult
  /\ \/ \E type \in AlgorithmTypes, d \in InitialData : InitService(type, d)
     \/ \E method \in Methods, metric \in Metrics : InitEngine("collaborative", method, metric)
     \/ InitEngine("content-based", "user-based", "cosine")

\* calls are synchronous: a call starts when the previous one has returned
Idle == result = NoResult

\* engine.train(data), called by the caller
Train(data) ==
  /\ Idle
  /\ algorithm_type = NoService
  /\ cf' = IF algorithms[1] = "collaborative" THEN CFTrain(cf, data) ELSE cf
  /\ cb' = IF algorithms[1] = "content-based" THEN CBTrain(cb, data) ELSE cb
  /\ trained' = <<data>>
  /\ previous' = trained
  /\ result' = [op |-> "train"]
  /\ UNCHANGED <<ratings, items, users, algorithm_type, algorithms, ops, files>>

\* engine.recommend_for_user(user_id, limit), called by the caller
RecommendForUser(user_id, limit) ==
  /\ Idle
  /\ algorithm_type = NoService
  /\ result' = [op |-> "recommend_for_user", user_id |-> user_id, limit |-> limit,
                value |-> IF algorithms[1] = "collaborative"
                          THEN CFRecommend(cf, user_id, limit)
                          ELSE CBRecommend(cb, user_id, limit)]
  /\ UNCHANGED <<ratings, items, users, algorithm_type, algorithms, cf, cb, trained, previous, ops, files>>

\* a repository may be written: up to MaxOps times under a service, up to
\* MaxCalls times when the repositories are used on their own
Writable ==
  IF algorithm_type = NoService THEN algorithms = <<>> /\ ops < MaxCalls ELSE ops < MaxOps

\* a faulty save: the engines are trained again with what the repositories
\* hold after it
SaveAndTrain(rating) ==
  /\ Idle
  /\ algorithm_type /= NoService
  /\ ops < MaxOps
  /\ ratings' = RatingSave(ratings, rating)
  /\ files' = [files EXCEPT !.ratings = WriteRatings(ratings')]
  /\ ops' = ops + 1
  /\ result' = [op |-> "save"]
  /\ cf' = TrainCF(TrainCalls(algorithms, TrainingData(users, items, ratings')), cf)
  /\ cb' = TrainCB(TrainCalls(algorithms, TrainingData(users, items, ratings')), cb)
  /\ UNCHANGED <<items, users, algorithm_type, algorithms, trained, previous>>

\* rating_repository.save(rating)
SaveRating(rating) ==
  /\ Idle
  /\ algorithm_type /= NoService
  /\ ops < MaxOps
  /\ ratings' = RatingSave(ratings, rating)
  /\ files' = [files EXCEPT !.ratings = WriteRatings(ratings')]
  /\ ops' = ops + 1
  /\ result' = [op |-> "save"]
  /\ UNCHANGED <<items, users, algorithm_type, algorithms, cf, cb, trained, previous>>

\* rating_repository.delete(rating_id)
DeleteRating(rating_id) ==
  /\ Idle
  /\ algorithm_type /= NoService
  /\ ops < MaxOps
  /\ ratings' = RatingDelete(ratings, rating_id)
  /\ files' = IF DHas(ratings, rating_id)
               THEN [files EXCEPT !.ratings = WriteRatings(ratings')]
               ELSE files
  /\ ops' = ops + 1
  /\ result' = [op |-> "delete", value |-> DHas(ratings, rating_id)]
  /\ UNCHANGED <<items, users, algorithm_type, algorithms, cf, cb, trained, previous>>

\* item_repository.save(item)
SaveItem(item) ==
  /\ Idle
  /\ Writable
  /\ items' = ItemSave(items, item)
  /\ files' = [files EXCEPT !.items = WriteItems(items')]
  /\ ops' = ops + 1
  /\ result' = [op |-> "save_item", item |-> item]
  /\ UNCHANGED <<ratings, users, algorithm_type, algorithms, cf, cb, trained, previous>>

\* item_repository.delete(item_id)
DeleteItem(item_id) ==
  /\ Idle
  /\ Writable
  /\ items' = ItemDelete(items, item_id)
  /\ files' = IF DHas(items, item_id)
               THEN [files EXCEPT !.items = WriteItems(items')]
               ELSE files
  /\ ops' = ops + 1
  /\ result' = [op |-> "delete_item", item_id |-> item_id, value |-> DHas(items, item_id)]
  /\ UNCHANGED <<ratings, users, algorithm_type, algorithms, cf, cb, trained, previous>>

\* service.refresh_models()
RefreshModels ==
  /\ Idle
  /\ algorithm_type /= NoService
  /\ result' = [op |-> "refresh_models",
                calls |-> TrainCalls(algorithms, TrainingData(users, items, ratings))]
  /\ cf' = TrainCF(result'.calls, cf)
  /\ cb' = TrainCB(result'.calls, cb)
  /\ trained' = <<TrainingData(users, items, ratings)>>
  /\ previous' = trained
  /\ UNCHANGED <<ratings, items, users, algorithm_type, algorithms, ops, files>>

\* service.get_recommendations_for_user(user_id, limit, exclude_rated)
GetRecommendations(user_id, limit, exclude_rated) ==
  /\ Idle
  /\ algorithm_type /= NoService
  /\ result' = [op |-> "get_recommendations_for_user", user_id |-> user_id,
                limit |-> limit, exclude_rated |-> exclude_rated,
                calls |-> EngineCalls(algorithms, user_id, limit),
                returned |-> get_recommendations_for_user(algorithms, cf, cb, items, ratings,
                                                          user_id, limit, exclude_rated)]
  /\ UNCHANGED <<ratings, items, users, algorithm_type, algorithms, cf, cb, trained, previous, ops, files>>

\* the caller takes the returned value
Return ==
  /\ ~Idle
  /\ result' = NoResult
  /\ UNCHANGED <<ratings, items, users, algorithm_type, algorithms, cf, cb, trained, previous, ops, files>>

Next ==
  \/ \E data \in TrainingInputs : Train(data)
  \/ \E u \in QueryUsers, limit \in Limits : RecommendForUser(u, limit)
  \/ \E rating \in SaveInputs : SaveRating(rating)
  \/ \E id \in DeleteIds : DeleteRating(id)
  \/ \E item \in ItemInputs : SaveItem(item)
  \/ \E id \in DeleteItemIds : DeleteItem(id)
  \/ RefreshModels
  \/ \E u \in QueryUsers, limit \in Limits, x \in BOOLEAN : GetRecommendations(u, limit, x)
  \/ Return

Spec == Init /\ [][Next]_vars

(***************************************************************************)
(* utils.py called on its own: the similarity functions on vectors of up   *)
(* to MaxLen components                                                    *)
(***************************************************************************)
MaxLen == 2
Components == {QInt(0), QInt(1), QInt(-2), Q(1, 2)}
Vectors(n) == [1..n -> Components]

UtilsInit ==
  /\ users = <<>>
  /\ items = <<>>
  /\ ratings = <<>>
  /\ algorithm_type = NoService
  /\ algorithms = <<>>
  /\ cf = CollaborativeFiltering("user-based", "cosine")
  /\ cb = ContentBased
  /\ trained = <<>>
  /\ previous = <<>>
  /\ files = NoFiles
  /\ ops = 0
  /\ result = NoResult

\* cosine_similarity(vector1, vector2)
CosineSimilarity(vector1, vector2) ==
  /\ Idle
  /\ result' = [op |-> "cosine_similarity", vector1 |-> vector1, vector2 |-> vector2,
                value |-> cosine_similarity(vector1, vector2)]
  /\ UNCHANGED <<ratings, items, users, algorithm_type, algorithms, cf, cb, trained, previous, ops, files>>

UtilsNext ==
  \/ \E n \in 0..MaxLen : \E vector1, vector2 \in Vectors(n) :
       CosineSimilarity(vector1, vector2)
  \/ Return

UtilsSpec == UtilsInit /\ [][UtilsNext]_vars

(***************************************************************************)
(* The content-based engine asked for explanations: constructed, trained   *)
(* by its caller, and asked why an item was recommended to a user          *)
(***************************************************************************)
\* the users of the fixture, user 1 holding the preference comedy with weight 0
ZeroWeightUsers ==
  [i \in DOMAIN FixtureUsers |->
     IF FixtureUsers[i].id = 1 THEN User(1, <<<<S("comedy"), QInt(0)>>>>) ELSE FixtureUsers[i]]

ExplainInputs ==
  {EmptyData,
   Data(FixtureUsers, FixtureItems, FixtureRatings),
   Data(FixtureUsers, CategoryItems, FixtureRatings),
   Data(ZeroWeightUsers, FixtureItems, FixtureRatings)}

MaxItem == 5
DefaultTopFeatures == 3
ExplainItems == 1..MaxItem
TopFeatures == {0, 1, DefaultTopFeatures}

ExplainInit ==
  /\ ops = 0
  /\ result = NoResult
  /\ InitEngine("content-based", "user-based", "cosine")

\* engine.explain_recommendation(user_id, item_id, top_features)
ExplainRecommendation(user_id, item_id, top_features) ==
  /\ Idle
  /\ algorithms = <<"content-based">>
  /\ \E common_features \in IterationOrders(CommonFeatures(cb, user_id, item_id)) :
       result' = [op |-> "explain_recommendation", user_id |-> user_id,
                  item_id |-> item_id, top_features |-> top_features,
                  value |-> explain_recommendation(cb, user_id, item_id, top_features,
                                                   common_features)]
  /\ UNCHANGED <<ratings, items, users, algorithm_type, algorithms, cf, cb, trained, previous, ops, files>>

ExplainNext ==
  \/ \E data \in ExplainInputs : Train(data)
  \/ \E u \in QueryUsers, i \in ExplainItems, n \in TopFeatures : ExplainRecommendation(u, i, n)
  \/ Return

ExplainSpec == ExplainInit /\ [][ExplainNext]_vars

(***************************************************************************)
(* The rating repository used on its own, from an empty store (no          *)
(* ratings.csv in the data directory): up to MaxCalls writes               *)
(***************************************************************************)
SaveArguments ==
  {Rating(id, pair[1], pair[2], value) :
     id \in {None, 1, 2}, pair \in {<<1, 1>>, <<1, 2>>, <<2, 1>>}, value \in {QInt(3), QInt(5)}}
DeleteArguments == 1..MaxCalls

RepositoryInit ==
  /\ users = <<>>
  /\ items = <<>>
  /\ ratings = <<>>
  /\ algorithm_type = NoService
  /\ algorithms = <<>>
  /\ cf = CollaborativeFiltering("user-based", "cosine")
  /\ cb = ContentBased
  /\ trained = <<>>
  /\ previous = <<>>
  /\ files = NoFiles
  /\ ops = 0
  /\ result = NoResult

\* rating_repository.save(rating), called by the caller
Save(rating) ==
  /\ Idle
  /\ ops < MaxCalls
  /\ ratings' = RatingSave(ratings, rating)
  /\ files' = [files EXCEPT !.ratings = WriteRatings(ratings')]
  /\ ops' = ops + 1
  /\ result' = [op |-> "save", rating |-> rating, value |-> RatingSaved(ratings, rating)]
  /\ UNCHANGED <<items, users, algorithm_type, algorithms, cf, cb, trained, previous>>

\* rating_repository.delete(rating_id), called by the caller
Delete(rating_id) ==
  /\ Idle
  /\ ops < MaxCalls
  /\ ratings' = RatingDelete(ratings, rating_id)
  /\ files' = IF DHas(ratings, rating_id)
               THEN [files EXCEPT !.ratings = WriteRatings(ratings')]
               ELSE files
  /\ ops' = ops + 1
  /\ result' = [op |-> "delete", rating_id |-> rating_id, value |-> DHas(ratings, rating_id)]
  /\ UNCHANGED <<items, users, algorithm_type, algorithms, cf, cb, trained, previous>>

RepositoryNext ==
  \/ \E rating \in SaveArguments : Save(rating)
  \/ \E id \in DeleteArguments : Delete(id)
  \/ Return

RepositorySpec == RepositoryInit /\ [][RepositoryNext]_vars

(***************************************************************************)
(* The three repositories used on their own on a data directory that       *)
(* starts without files: up to MaxCalls writes, and new repository         *)
(* instances opened on the directory at any time                           *)
(***************************************************************************)
StoredRatings ==
  {Rating(None, 1, 1, Q(9, 2)), Rating(None, 1, 1, QInt(5)), Rating(2, 2, 1, QInt(0))}
\* a name and a category holding the delimiter and quotes
StoredItems ==
  {[id |-> None, name |-> <<"Movie", ",", " ", "\"", "1", "\"">>,
    categories |-> <<S("sci-fi"), <<"a", ",", "\"", "b", "\"", "\\">>>>,
    features |-> <<<<S("length"), QInt(120)>>, <<S("year"), Q(40401, 20)>>>>],
   Item(2, <<>>, <<>>),
   Item(2, <<S("comedy")>>, Attributes(95, 2021, 50))}
StoredUsers ==
  {[id |-> None, username |-> <<"u", ",", "\"", "1">>,
    preferences |-> <<<<S("action"), Q(8, 10)>>, <<S("sci-fi"), QInt(1)>>>>,
    history |-> <<3, 1>>],
   User(2, <<>>)}

\* user_repository.save(user)
SaveUser(user) ==
  /\ Idle
  /\ Writable
  /\ users' = UserSave(users, user)
  /\ files' = [files EXCEPT !.users = WriteUsers(users')]
  /\ ops' = ops + 1
  /\ result' = [op |-> "save_user", user |-> user]
  /\ UNCHANGED <<ratings, items, algorithm_type, algorithms, cf, cb, trained, previous>>

\* user_repository.delete(user_id)
DeleteUser(user_id) ==
  /\ Idle
  /\ Writable
  /\ users' = UserDelete(users, user_id)
  /\ files' = IF DHas(users, user_id)
               THEN [files EXCEPT !.users = WriteUsers(users')]
               ELSE files
  /\ ops' = ops + 1
  /\ result' = [op |-> "delete_user", user_id |-> user_id, value |-> DHas(users, user_id)]
  /\ UNCHANGED <<ratings, items, algorithm_type, algorithms, cf, cb, trained, previous>>

\* RatingRepository(data_path), ItemRepository(data_path) and
\* UserRepository(data_path): new instances, which take the place of the old
Reopen ==
  /\ Idle
  /\ algorithm_type = NoService
  /\ algorithms = <<>>
  /\ ratings' = LoadRatings(files.ratings)
  /\ items' = LoadItems(files.items)
  /\ users' = LoadUsers(files.users)
  /\ result' = [op |-> "open"]
  /\ UNCHANGED <<algorithm_type, algorithms, cf, cb, trained, previous, ops, files>>

PersistenceNext ==
  \/ \E rating \in StoredRatings : Save(rating)
  \/ \E id \in DeleteArguments : Delete(id)
  \/ \E item \in StoredItems : SaveItem(item)
  \/ \E id \in DeleteArguments : DeleteItem(id)
  \/ \E user \in StoredUsers : SaveUser(user)
  \/ \E id \in DeleteArguments : DeleteUser(id)
  \/ Reopen
  \/ Return

PersistenceSpec == RepositoryInit /\ [][PersistenceNext]_vars

(***************************************************************************)
(* The engines used on their own: one engine, constructed by the caller,   *)
(* trained and queried                                                     *)
(***************************************************************************)
\* user 1 rated item 1 with 0; users 2 and 3 rated items 1 and 2
ZeroRatings ==
  <<Rating(1, 1, 1, QInt(0)), Rating(2, 2, 1, QInt(4)), Rating(3, 2, 2, QInt(5)),
    Rating(4, 3, 1, QInt(3)), Rating(5, 3, 2, QInt(4))>>

\* an item with an attribute named "category_action", in the category "action"
ClashItems ==
  <<Item(1, <<S("action")>>,
         <<<<category_feature(S("action")), QInt(3)>>, <<S("length"), QInt(120)>>>>),
    Item(2, <<S("comedy")>>, <<<<S("length"), QInt(95)>>>>)>>

\* what train is called with
EngineInputs ==
  {EmptyData,
   Data(FixtureUsers, ClashItems, FixtureRatings),
   Data(<<>>, <<>>, ScenarioRatings),
   Data(<<>>, <<>>, ZeroRatings),
   Data(FixtureUsers, FixtureItems, Append(FixtureRatings, Rating(6, 1, 2, QInt(1)))),
   Data(FixtureUsers, CategoryItems, LowRatings)}

EngineInit ==
  /\ ops = 0
  /\ result = NoResult
  /\ \/ \E method \in Methods, metric \in Metrics : InitEngine("collaborative", method, metric)
     \/ InitEngine("content-based", "user-based", "cosine")

EngineNext ==
  \/ \E data \in EngineInputs : Train(data)
  \/ \E u \in QueryUsers, limit \in Limits : RecommendForUser(u, limit)
  \/ Return

EngineSpec == EngineInit /\ [][EngineNext]_vars

(***************************************************************************)
(* The service on repositories whose get_all may raise                     *)
(***************************************************************************)
\* the repository whose get_all raises, "none" when none does
Raising == {"none", "users", "items", "ratings"}

\* a faulty _train_algorithms: the exception is caught and not raised again,
\* and the engines are trained with what had been read before it
train_with_what_was_read(names, data, raising) ==
  [raised |-> FALSE,
   calls |-> TrainCalls(names,
                        [users |-> IF raising = "users" THEN <<>> ELSE data.users,
                         items |-> IF raising \in {"users", "items"} THEN <<>> ELSE data.items,
                         ratings |-> IF raising = "none" THEN data.ratings ELSE <<>>])]

\* _train_algorithms, lines 80-99: training_data is read from the three
\* repositories before the first call of train; an exception is logged and
\* raised again
train_algorithms(names, data, raising) ==
  IF raising = "none" THEN [raised |-> FALSE, calls |-> TrainCalls(names, data)]
  ELSE [raised |-> TRUE, calls |-> <<>>]

\* what the repositories hold when the service is constructed
ServiceInputs ==
  {Data(FixtureUsers, CategoryItems, ScenarioRatings),
   Data(FixtureUsers, FixtureItems, FixtureRatings)}

\* RecommendationService(user_repository, item_repository, rating_repository,
\* type); when __init__ raises, the caller holds no service
Construct(type, d, raising) ==
  /\ users = StoreOf(d.users)
  /\ items = StoreOf(d.items)
  /\ ratings = StoreOf(d.ratings)
  /\ files = [ratings |-> WriteRatings(StoreOf(d.ratings)), items |-> WriteItems(StoreOf(d.items)),
              users |-> WriteUsers(StoreOf(d.users))]
  /\ ops = 0
  /\ previous = <<>>
  /\ result = [op |-> "__init__", raising |-> raising,
               raised |-> train_algorithms(Algorithms(type), d, raising).raised,
               calls |-> train_algorithms(Algorithms(type), d, raising).calls]
  /\ algorithm_type = IF result.raised THEN NoService ELSE type
  /\ algorithms = IF result.raised THEN <<>> ELSE Algorithms(type)
  /\ cf = TrainCF(result.calls, CollaborativeFiltering("user-based", "cosine"))
  /\ cb = TrainCB(result.calls, ContentBased)
  /\ trained = IF result.calls = <<>> THEN <<>> ELSE <<result.calls[1].data>>

ServiceInit ==
  \E type \in AlgorithmTypes, d \in ServiceInputs, raising \in Raising : Construct(type, d, raising)

\* service.refresh_models()
Refresh(raising) ==
  /\ Idle
  /\ algorithm_type /= NoService
  /\ result' = [op |-> "refresh_models", raising |-> raising,
                raised |-> train_algorithms(algorithms, TrainingData(users, items, ratings),
                                            raising).raised,
                calls |-> train_algorithms(algorithms, TrainingData(users, items, ratings),
                                           raising).calls]
  /\ cf' = TrainCF(result'.calls, cf)
  /\ cb' = TrainCB(result'.calls, cb)
  /\ trained' = IF result'.calls = <<>> THEN trained ELSE <<result'.calls[1].data>>
  /\ previous' = IF result'.calls = <<>> THEN previous ELSE trained
  /\ UNCHANGED <<ratings, items, users, algorithm_type, algorithms, ops, files>>

\* service.algorithms[name].recommend_for_user(user_id, limit)
EngineQuery(name, user_id, limit) ==
  /\ Idle
  /\ name \in Range(algorithms)
  /\ result' = [op |-> "recommend_for_user", name |-> name, user_id |-> user_id,
                limit |-> limit,
                value |-> IF name = "collaborative" THEN CFRecommend(cf, user_id, limit)
                          ELSE CBRecommend(cb, user_id, limit)]
  /\ UNCHANGED <<ratings, items, users, algorithm_type, algorithms, cf, cb, trained, previous, ops, files>>

ServiceNext ==
  \/ \E raising \in Raising : Refresh(raising)
  \/ \E rating \in SaveInputs : SaveRating(rating)
  \/ \E id \in DeleteIds : DeleteRating(id)
  \/ \E u \in QueryUsers, x \in BOOLEAN : GetRecommendations(u, DefaultLimit, x)
  \/ \E name \in {"collaborative", "content-based"}, u \in QueryUsers :
       EngineQuery(name, u, DefaultLimit)
  \/ \E u \in QueryUsers, i \in ExplainItems : ExplainRecommendation(u, i, DefaultTopFeatures)
  \/ Return

ServiceSpec == ServiceInit /\ [][ServiceNext]_vars

(***************************************************************************)
(* Properties                                                              *)
(***************************************************************************)
RecommendedItems(recs) == {recs[i][1] : i \in DOMAIN recs}

\* the items user_id has a rating for in the latest training input
RatedInTraining(user_id) ==
  IF trained = <<>> THEN {}
  ELSE {r.item_id : r \in {x \in Range(trained[1].ratings) : x.user_id = user_id}}

\* the items user_id has a rating for in the rating repository
RatedInRepository(user_id) ==
  {r.item_id : r \in {x \in Range(get_all(ratings)) : x.user_id = user_id}}

\* recommend_for_user of the engine called name has returned
EngineReturned(name) ==
  /\ result.op = "recommend_for_user"
  /\ algorithms[1] = name

\* the position of item_id in a list of recommendations, 0 when it is absent
PositionOf(recs, item_id) ==
  IF item_id \in RecommendedItems(recs)
  THEN CHOOSE i \in DOMAIN recs : recs[i][1] = item_id
  ELSE 0

\* C1: whatever ratings a CollaborativeFiltering engine (either method, either
\* metric) was trained with, recommend_for_user(u, limit) returns no item that
\* u has a rating for in the training input.
C1_NeverRecommendsRated ==
  EngineReturned("collaborative") =>
    RecommendedItems(result.value) \cap RatedInTraining(result.user_id) = {}

\* a user-based engine returned items to a user, one of whose similar users had
\* rated an item the user rated too
C1_Witness ==
  /\ EngineReturned("collaborative")
  /\ cf.method = "user-based"
  /\ result.value /= <<>>
  /\ \E su \in Range(DGet(cf.user_similarity, result.user_id, <<>>)) :
       DKeySet(DGet(cf.user_item_ratings, su[1], <<>>))
         \cap RatedInTraining(result.user_id) /= {}

\* C2: whatever items, users and ratings a ContentBased engine was trained
\* with, recommend_for_user(u, limit) returns no item that u has a rating for
\* in the training input, whatever the rating's value.
C2_NeverRecommendsRated ==
  EngineReturned("content-based") =>
    RecommendedItems(result.value) \cap RatedInTraining(result.user_id) = {}

\* the engine returned items to a user one of whose ratings (a value of at most
\* 1) was skipped when the profile was built
C2_Witness ==
  /\ EngineReturned("content-based")
  /\ result.value /= <<>>
  /\ \E r \in Range(trained[1].ratings) :
       r.user_id = result.user_id /\ QLe(r.value, QInt(1))

\* C3: get_recommendations_for_user(u, limit, True) returns no item for which
\* the rating repository holds a rating by u when the query is made, whatever
\* saves, deletes and refreshes came before -- also not an item u rated after
\* the engines were last trained.
C3_ExcludesRatedAtQueryTime ==
  (result.op = "get_recommendations_for_user" /\ result.exclude_rated) =>
    \A i \in DOMAIN result.returned.value :
      result.returned.value[i].item_id \notin RatedInRepository(result.user_id)

\* a query returned items although an engine offered an item the user rated
\* only after the engines were trained
C3_Witness ==
  /\ result.op = "get_recommendations_for_user"
  /\ result.exclude_rated
  /\ result.returned.value /= <<>>
  /\ \E item_id \in RatedInRepository(result.user_id) \ RatedInTraining(result.user_id) :
       item_id \in RecommendedItems(CFRecommend(cf, result.user_id, result.limit * 2))
                     \cup RecommendedItems(CBRecommend(cb, result.user_id, result.limit * 2))

\* C4: every predicted rating a trained CollaborativeFiltering engine returns
\* lies in the closed interval [0.5, 5.0].
C4_PredictionsInRange ==
  EngineReturned("collaborative") =>
    \A i \in DOMAIN result.value :
      QLe(Q(1, 2), result.value[i][2]) /\ QLe(result.value[i][2], QInt(5))

\* a returned prediction sits on a boundary of the interval
C4_Witness ==
  /\ EngineReturned("collaborative")
  /\ trained /= <<>>
  /\ \E i \in DOMAIN result.value : result.value[i][2] \in {Q(1, 2), QInt(5)}

\* the score of item_id in a list of recommendations
ScoreIn(recs, item_id) == recs[PositionOf(recs, item_id)][2]

\* the sum, over the lists that hold item_id, of score / number of owned engines
SumOfShares(lists, item_id) ==
  FoldSeq(LAMBDA acc, recs :
            IF item_id \in RecommendedItems(recs)
            THEN QAdd(acc, QDiv(ScoreIn(recs, item_id), QInt(Len(lists))))
            ELSE acc,
          QInt(0), lists)

\* the merged scores are the sums of shares of the engines' lists
MergedFrom(lists, excluded, merged) ==
  \A item_id \in DKeySet(items) \cup DKeySet(merged) \cup excluded
                   \cup UNION {RecommendedItems(lists[k]) : k \in DOMAIN lists} :
    IF \/ \A k \in DOMAIN lists : item_id \notin RecommendedItems(lists[k])
       \/ item_id \in excluded
    THEN ~DHas(merged, item_id)
    ELSE /\ DHas(merged, item_id)
         /\ DGet(merged, item_id, NaN) = SumOfShares(lists, item_id)

\* what the owned engines return to the service's calls, in the engines' order
EngineLists(user_id, limit) ==
  [k \in DOMAIN algorithms |->
     IF algorithms[k] = "collaborative" THEN CFRecommend(cf, user_id, limit * 2)
     ELSE CBRecommend(cb, user_id, limit * 2)]

\* C5: before truncation and rounding, the merged score of every item that is
\* not excluded is the sum, over the owned engines that returned it, of the
\* engine's score divided by the number of owned engines (0.5*s1 + 0.5*s2 for
\* both engines of a hybrid service, 0.5*s for one of them); an excluded item,
\* or one no engine returned, has no merged score.
C5_MergedScore ==
  result.op = "get_recommendations_for_user" =>
    MergedFrom(EngineLists(result.user_id, result.limit),
               IF result.exclude_rated THEN RatedInRepository(result.user_id) ELSE {},
               result.returned.all_recommendations)

\* the number of owned engines that return item_id to the query
ReturnedByHowMany(lists, item_id) ==
  Cardinality({k \in DOMAIN lists : item_id \in RecommendedItems(lists[k])})

BothAndOne(lists, merged) ==
  \E a, b \in DKeySet(merged) :
    ReturnedByHowMany(lists, a) = 2 /\ ReturnedByHowMany(lists, b) = 1

\* a hybrid service merged an item both engines returned and an item only one
\* of them returned
C5_Witness ==
  /\ result.op = "get_recommendations_for_user"
  /\ Len(algorithms) = 2
  /\ BothAndOne(EngineLists(result.user_id, result.limit),
                result.returned.all_recommendations)

\* C6: train called with the input of the train call before it leaves the
\* engine's tables as they were, and recommend_for_user returns what it
\* returned before, for every user and limit.
C6_TrainIdempotent ==
  [][(result'.op \in {"train", "refresh_models"} /\ trained' = trained) =>
       /\ cf' = cf
       /\ cb' = cb
       /\ \A u \in QueryUsers, limit \in Limits :
            /\ CFRecommend(cf', u, limit) = CFRecommend(cf, u, limit)
            /\ CBRecommend(cb', u, limit) = CBRecommend(cb, u, limit)]_vars

\* a user-based engine holding similarities was trained twice in a row with
\* the same input
C6_Witness ==
  /\ result.op = "train"
  /\ previous = trained
  /\ algorithms[1] = "collaborative"
  /\ \E i \in DOMAIN cf.user_similarity : cf.user_similarity[i][2] /= <<>>

\* C7: after train with no ratings, items and users, recommend_for_user returns
\* the empty list for every user and limit, on a fresh engine and on one that
\* was trained with data before.
C7_EmptyTraining ==
  (result.op = "recommend_for_user" /\ trained = <<EmptyData>>) => result.value = <<>>

\* an engine trained with ratings, then with nothing, was asked for
\* recommendations
C7_Witness ==
  /\ result.op = "recommend_for_user"
  /\ trained = <<EmptyData>>
  /\ previous /= <<>>
  /\ previous[1].ratings /= <<>>
  /\ result.limit > 0

\* C8: recommend_for_user returns the empty list for a user who has no rating
\* in the training input: a user the engine does not know, and for ContentBased
\* a user with category preferences but no ratings.
C8_NoRatingsNoRecommendations ==
  (/\ result.op = "recommend_for_user"
   /\ trained /= <<>>
   /\ RatedInTraining(result.user_id) = {}) => result.value = <<>>

\* a ContentBased engine holding profiles was asked about a user with
\* preferences and no ratings
C8_Witness ==
  /\ EngineReturned("content-based")
  /\ trained /= <<>>
  /\ RatedInTraining(result.user_id) = {}
  /\ cb.user_profiles /= <<>>
  /\ result.limit > 0
  /\ \E u \in Range(trained[1].users) : u.id = result.user_id /\ u.preferences /= <<>>

\* C9: trained on the nine ratings of the scenario, a cosine engine (user-based
\* or item-based) returns for recommend_for_user(1) a list with item 4 in it
\* and none of the items 1, 2, 3.
C9_Scenario ==
  (/\ EngineReturned("collaborative")
   /\ cf.similarity_metric = "cosine"
   /\ trained /= <<>>
   /\ trained[1].ratings = ScenarioRatings
   /\ result.user_id = 1
   /\ result.limit = DefaultLimit) =>
    /\ 4 \in RecommendedItems(result.value)
    /\ RecommendedItems(result.value) \cap {1, 2, 3} = {}

\* the user-based cosine engine of the scenario answered recommend_for_user(1)
C9_Witness ==
  /\ EngineReturned("collaborative")
  /\ cf.similarity_metric = "cosine"
  /\ cf.method = "user-based"
  /\ trained /= <<>>
  /\ trained[1].ratings = ScenarioRatings
  /\ result.user_id = 1
  /\ result.limit = DefaultLimit
  /\ result.value /= <<>>

\* C10: trained on the four items of the scenario, as the test fixture gives
\* them (with length, year, budget and users with preferences) or carrying
\* categories only, where user 1 rated item 1 with 5.0 and item 3 with 4.0,
\* recommend_for_user(1) ranks item 4 strictly above item 2.
C10_Item4AboveItem2 ==
  (/\ EngineReturned("content-based")
   /\ trained /= <<>>
   /\ trained[1].items \in {FixtureItems, CategoryItems}
   /\ trained[1].ratings = FixtureRatings
   /\ result.user_id = 1
   /\ result.limit = DefaultLimit) =>
    /\ PositionOf(result.value, 4) > 0
    /\ PositionOf(result.value, 2) > 0
    /\ PositionOf(result.value, 4) < PositionOf(result.value, 2)

\* the norm of a vector is zero
ZeroNorm(vector) == \A i \in DOMAIN vector : vector[i][1] = 0

\* C11: cosine_similarity of two vectors of equal length returns exactly 0.0,
\* and not nan, whenever one of them (or both) has zero norm.
C11_ZeroNormGivesZero ==
  (/\ result.op = "cosine_similarity"
   /\ (ZeroNorm(result.vector1) \/ ZeroNorm(result.vector2))) => result.value = QInt(0)

\* the function was applied to a zero vector and a vector that is not zero
C11_Witness ==
  /\ result.op = "cosine_similarity"
  /\ Len(result.vector1) = MaxLen
  /\ ZeroNorm(result.vector1)
  /\ ~ZeroNorm(result.vector2)

\* what the three repositories hold
RepositoryContents ==
  [users |-> DValues(users), items |-> DValues(items), ratings |-> DValues(ratings)]

\* the engines a service of a mode owns
EnginesOf(mode) ==
  IF mode = "collaborative" THEN {"collaborative"}
  ELSE IF mode = "content-based" THEN {"content-based"}
  ELSE {"collaborative", "content-based"}

\* every owned engine is as train(data) leaves an engine
OwnedEnginesTrainedWith(data) ==
  /\ "collaborative" \in Range(algorithms) =>
       cf = CFTrain(CollaborativeFiltering(cf.method, cf.similarity_metric), data)
  /\ "content-based" \in Range(algorithms) => cb = CBTrain(ContentBased, data)

\* the service has been constructed and nothing but queries has happened since
JustConstructed == algorithm_type /= NoService /\ previous = <<>> /\ ops = 0

\* C12: when the constructor has returned, the service owns exactly the
\* collaborative engine in mode collaborative, exactly the content-based engine
\* in mode content-based and exactly both in mode hybrid, each in its key's
\* place once, and every owned engine has been trained with the users, items
\* and ratings of the three repositories.
C12_ConstructedAndTrained ==
  JustConstructed =>
    /\ Range(algorithms) = EnginesOf(algorithm_type)
    /\ Len(algorithms) = Cardinality(EnginesOf(algorithm_type))
    /\ trained = <<RepositoryContents>>
    /\ OwnedEnginesTrainedWith(RepositoryContents)

\* a hybrid service has been constructed on repositories that hold data
C12_Witness ==
  /\ JustConstructed
  /\ result = NoResult
  /\ algorithm_type = "hybrid"
  /\ ratings /= <<>>
  /\ cb.user_profiles /= <<>>
  /\ \E i \in DOMAIN cf.user_similarity : cf.user_similarity[i][2] /= <<>>

\* C13: a call of refresh_models calls train once on every owned engine, each
\* time with the one snapshot of the three repositories, and afterwards every
\* owned engine reflects what the repositories held at the call.
C13_RefreshRetrainsAll ==
  result.op = "refresh_models" =>
    /\ Len(result.calls) = Len(algorithms)
    /\ \A name \in Range(algorithms) :
         Cardinality({i \in DOMAIN result.calls : result.calls[i].name = name}) = 1
    /\ \A i \in DOMAIN result.calls : result.calls[i].data = RepositoryContents
    /\ OwnedEnginesTrainedWith(RepositoryContents)

\* a hybrid service was refreshed after the ratings had changed
C13_Witness ==
  /\ result.op = "refresh_models"
  /\ algorithm_type = "hybrid"
  /\ previous /= trained
  /\ ratings /= <<>>

\* C14: get_recommendations_for_user(u, limit, ...) calls recommend_for_user
\* once on every owned engine, with user u and a limit of 2 * limit.
C14_EachEngineAskedOnce ==
  result.op = "get_recommendations_for_user" =>
    /\ Len(result.calls) = Len(algorithms)
    /\ \A name \in Range(algorithms) :
         Cardinality({i \in DOMAIN result.calls : result.calls[i].name = name}) = 1
    /\ \A i \in DOMAIN result.calls :
         /\ result.calls[i].user_id = result.user_id
         /\ result.calls[i].limit = 2 * result.limit

\* a hybrid service answered a query with a limit that cut the answer short
C14_Witness ==
  /\ result.op = "get_recommendations_for_user"
  /\ algorithm_type = "hybrid"
  /\ result.limit = 1
  /\ Len(DKeys(result.returned.all_recommendations)) > 1

\* the merged candidates in rank order, cut to limit
TopCandidates == Slice(SortDesc(result.returned.all_recommendations), result.limit)

\* those of them the item repository still holds
Resolvable == SelectSeq(TopCandidates, LAMBDA rec : DHas(items, rec[1]))

\* C15: get_recommendations_for_user returns the top-limit merged candidates
\* without those the item repository no longer holds, in their order and
\* without filling the gaps from lower ranks; every record carries the name
\* and the categories the repository holds for the item now.
C15_UnresolvableDropped ==
  result.op = "get_recommendations_for_user" =>
    /\ Len(result.returned.value) = Len(Resolvable)
    /\ \A i \in DOMAIN result.returned.value :
         /\ result.returned.value[i].item_id = Resolvable[i][1]
         /\ result.returned.value[i].name = DGet(items, Resolvable[i][1], <<>>).name
         /\ result.returned.value[i].categories
              = DGet(items, Resolvable[i][1], <<>>).categories

\* an item among the top-limit candidates had been deleted, and a candidate of
\* lower rank was left outside the limit
C15_Witness ==
  /\ result.op = "get_recommendations_for_user"
  /\ result.limit > 0
  /\ Len(result.returned.all_recommendations) > result.limit
  /\ Len(Resolvable) < Len(TopCandidates)
  /\ \E i \in DOMAIN result.returned.all_recommendations :
       /\ DHas(items, result.returned.all_recommendations[i][1])
       /\ result.returned.all_recommendations[i][1] \notin RecommendedItems(TopCandidates)

\* the merged score of the i-th returned record
MergedScoreOf(i) ==
  DGet(result.returned.all_recommendations, result.returned.value[i].item_id, NaN)

\* the returned list holds no item twice and is ordered by non-increasing merged score
DistinctAndRanked ==
  /\ \A i, j \in DOMAIN result.returned.value :
       i /= j => result.returned.value[i].item_id /= result.returned.value[j].item_id
  /\ \A i, j \in DOMAIN result.returned.value :
       i < j => QLe(MergedScoreOf(j), MergedScoreOf(i))

Explained == result.op = "explain_recommendation" /\ result.value /= NoExplanation

\* feature.startswith("category_")
StartsWithCategory(feature) == feature /= <<>> /\ Head(feature) = "category_"

\* the category features that are keys of both the user's profile and the
\* item's features
SharedCategories(user_id, item_id) ==
  {f \in CommonFeatures(cb, user_id, item_id) : StartsWithCategory(f)}

ShownFeatures == [k \in DOMAIN result.value.top_features |-> result.value.top_features[k].feature]

\* C17: when the user's profile and the item's features share a category
\* feature and top_features >= 1, the explanation lists at least one category
\* feature.
C17_SharedCategoryShown ==
  (/\ Explained
   /\ result.top_features >= 1
   /\ SharedCategories(result.user_id, result.item_id) /= {}) =>
    \E k \in DOMAIN ShownFeatures : StartsWithCategory(ShownFeatures[k])

\* C18: every entry of an explanation reports as its contribution the product
\* of the user_preference and the item_value of that entry.
C18_ContributionIsProduct ==
  Explained =>
    \A k \in DOMAIN result.value.top_features :
      LET entry == result.value.top_features[k]
      IN  entry.contribution = QMul(entry.user_preference, entry.item_value)

\* C19: for top_features >= 0 an explanation lists no feature twice and has at
\* most top_features entries, but exactly one entry when top_features is 0 and
\* a shared category feature is to be shown.
C19_AtMostTopFeatures ==
  (Explained /\ result.top_features >= 0) =>
    /\ \A j, k \in DOMAIN ShownFeatures : ShownFeatures[j] = ShownFeatures[k] => j = k
    /\ IF result.top_features = 0 /\ SharedCategories(result.user_id, result.item_id) /= {}
       THEN Len(ShownFeatures) = 1
       ELSE Len(ShownFeatures) <= result.top_features

\* get_all yields no two ratings of the same (user_id, item_id) pair
OnePerPair(store) ==
  \A i, j \in DOMAIN get_all(store) :
    (/\ get_all(store)[i].user_id = get_all(store)[j].user_id
     /\ get_all(store)[i].item_id = get_all(store)[j].item_id) => i = j

\* the step is a call of save for a pair that has a rating
SaveOfRatedPair ==
  /\ Idle
  /\ result'.op = "save"
  /\ get_by_user_and_item(ratings, result'.rating.user_id, result'.rating.item_id) /= 0

\* the step changes the value of the pair's rating and nothing else, and
\* returns that rating under the id it had
UpdatesInPlace ==
  LET existing == get_by_user_and_item(ratings, result'.rating.user_id, result'.rating.item_id)
  IN  /\ ratings' = [ratings EXCEPT ![existing][2].value = result'.rating.value]
      /\ result'.value = ratings'[existing][2]
      /\ result'.value.id = ratings[existing][2].id

\* C20: from an empty repository, after every save and delete the repository
\* holds at most one rating for a (user_id, item_id) pair, and a save for a
\* pair that has a rating changes that rating's value and returns it under its
\* id instead of adding a rating.
C20_OneRatingPerPair ==
  [][OnePerPair(ratings') /\ (SaveOfRatedPair => UpdatesInPlace)]_vars

\* a save that named another id was answered with the pair's rating, next to
\* a rating of another pair
C20_Witness ==
  /\ result.op = "save"
  /\ result.rating.id /= None
  /\ result.value.id /= result.rating.id
  /\ result.value.value = result.rating.value
  /\ Len(ratings) = 2
  /\ ops = MaxCalls

\* two stores hold the same ids, and under each id the same entity, which
\* carries that id
SameEntities(store, other) ==
  /\ DKeySet(store) = DKeySet(other)
  /\ \A id \in DKeySet(store) :
       DGet(store, id, <<>>) = DGet(other, id, <<>>) /\ DGet(store, id, <<>>).id = id

\* new instances opened on the data directory would hold what the stores hold
ReloadsTheSame ==
  /\ SameEntities(ratings, LoadRatings(files.ratings))
  /\ SameEntities(items, LoadItems(files.items))
  /\ SameEntities(users, LoadUsers(files.users))

\* a step that is delete(id) on a store: True is returned and the id is gone,
\* the other entities kept, iff the id was stored; otherwise False is
\* returned and store and file are as before
DeleteOf(store, after, id) ==
  IF DHas(store, id)
  THEN /\ result'.value = TRUE
       /\ ~DHas(after, id)
       /\ \A other \in DKeySet(store) \ {id} : DGet(after, other, <<>>) = DGet(store, other, <<>>)
       /\ DKeySet(after) \subseteq DKeySet(store)
  ELSE /\ result'.value = FALSE
       /\ after = store
       /\ files' = files

DeleteAnswers ==
  /\ result'.op = "delete" => DeleteOf(ratings, ratings', result'.rating_id)
  /\ result'.op = "delete_item" => DeleteOf(items, items', result'.item_id)
  /\ result'.op = "delete_user" => DeleteOf(users, users', result'.user_id)

TrainedRating(a, c) ==
  LET shared == SelectSeq(trained[1].ratings,
                          LAMBDA r : IF cf.method = "user-based"
                                     THEN r.user_id = a /\ r.item_id = c
                                     ELSE r.item_id = a /\ r.user_id = c)
  IN  IF shared = <<>> THEN <<>> ELSE <<shared[Len(shared)].value>>

\* the row and column entities that have ratings
TrainedRows ==
  {IF cf.method = "user-based" THEN r.user_id ELSE r.item_id : r \in Range(trained[1].ratings)}
TrainedColumns ==
  {IF cf.method = "user-based" THEN r.item_id ELSE r.user_id : r \in Range(trained[1].ratings)}

\* similarity(a, b): the configured metric on the rating vectors of a and b
TrainedSimilarity(a, b) ==
  IF cf.similarity_metric = "cosine"
  THEN cosine_similarity([k \in DOMAIN SortedSeq(TrainedColumns) |->
                            IF TrainedRating(a, SortedSeq(TrainedColumns)[k]) = <<>> THEN QInt(0)
                            ELSE TrainedRating(a, SortedSeq(TrainedColumns)[k])[1]],
                         [k \in DOMAIN SortedSeq(TrainedColumns) |->
                            IF TrainedRating(b, SortedSeq(TrainedColumns)[k]) = <<>> THEN QInt(0)
                            ELSE TrainedRating(b, SortedSeq(TrainedColumns)[k])[1]])
  ELSE pearson_correlation([k \in DOMAIN SortedSeq(TrainedColumns) |->
                              IF TrainedRating(a, SortedSeq(TrainedColumns)[k]) = <<>> THEN QInt(0)
                              ELSE TrainedRating(a, SortedSeq(TrainedColumns)[k])[1]],
                           [k \in DOMAIN SortedSeq(TrainedColumns) |->
                              IF TrainedRating(b, SortedSeq(TrainedColumns)[k]) = <<>> THEN QInt(0)
                              ELSE TrainedRating(b, SortedSeq(TrainedColumns)[k])[1]])

\* the similarity table of the configured method
ConfiguredTable == IF cf.method = "user-based" THEN cf.user_similarity ELSE cf.item_similarity

\* the table lists b as similar to a
Listed(a, b) == DHas(ConfiguredTable, a) /\ DHas(DGet(ConfiguredTable, a, <<>>), b)

\* train has returned on a CollaborativeFiltering engine
CFTrained == result.op = "train" /\ algorithms = <<"collaborative">>

\* C22: after train on a CollaborativeFiltering engine, the similarity table
\* of the configured method lists b under a exactly when a and b are distinct
\* entities with ratings whose similarity is not NaN and greater than 0.1; the
\* value stored is that similarity, no entity is listed under itself, and no
\* stored value is NaN or at most 0.1.
C22_SignificantSimilarities ==
  CFTrained =>
    /\ \A a \in 0..MaxItem, b \in 0..MaxItem :
         /\ Listed(a, b) <=>
              /\ a /= b
              /\ a \in TrainedRows
              /\ b \in TrainedRows
              /\ ~IsNaN(TrainedSimilarity(a, b))
              /\ QGt(TrainedSimilarity(a, b), Q(1, 10))
         /\ Listed(a, b) => DGet(DGet(ConfiguredTable, a, <<>>), b, NaN) = TrainedSimilarity(a, b)
    /\ \A i \in DOMAIN ConfiguredTable :
         /\ ConfiguredTable[i][1] \in 0..MaxItem
         /\ \A k \in DOMAIN ConfiguredTable[i][2] :
              /\ ConfiguredTable[i][2][k][1] \in 0..MaxItem
              /\ ConfiguredTable[i][2][k][1] /= ConfiguredTable[i][1]
              /\ ~IsNaN(ConfiguredTable[i][2][k][2])
              /\ QGt(ConfiguredTable[i][2][k][2], Q(1, 10))
              /\ \A j \in DOMAIN ConfiguredTable[i][2] :
                   ConfiguredTable[i][2][j][1] = ConfiguredTable[i][2][k][1] => j = k

\* a trained engine whose table lists one pair and leaves out a pair whose
\* similarity is NaN and a pair whose similarity is negative
C22_Witness ==
  /\ CFTrained
  /\ \E a \in TrainedRows, b \in TrainedRows : Listed(a, b)
  /\ \E a \in TrainedRows, b \in TrainedRows : a /= b /\ IsNaN(TrainedSimilarity(a, b))
  /\ \E a \in TrainedRows, b \in TrainedRows : QLt(TrainedSimilarity(a, b), QInt(0))

\* the training ratings of user u, and the arithmetic mean of their values
RatingsOfUser(u) == SelectSeq(trained[1].ratings, LAMBDA r : r.user_id = u)
TrainedMean(u) ==
  QDiv(FoldSeq(LAMBDA acc, r : QAdd(acc, r.value), QInt(0), RatingsOfUser(u)),
       QInt(Len(RatingsOfUser(u))))
\* r(u, i), for an item i that u rated
TrainedValue(u, i) == (CHOOSE r \in Range(RatingsOfUser(u)) : r.item_id = i).value

\* the users listed as similar to t
SimilarUsers(t) == DKeySet(DGet(cf.user_similarity, t, <<>>))
\* those of them who rated item i, in ascending order of their ids
SimilarRaters(t, i) == SortedSeq({v \in SimilarUsers(t) : i \in RatedInTraining(v)})
\* sim(t, v)
Sim(t, v) == DGet(DGet(cf.user_similarity, t, <<>>), v, NaN)

\* the items rated by at least one user similar to t and not by t
UserBasedCandidates(t) ==
  (UNION {RatedInTraining(v) : v \in SimilarUsers(t)}) \ RatedInTraining(t)

\* x brought into [0.5, 5.0]
Within(x) == IF QLt(x, Q(1, 2)) THEN Q(1, 2) ELSE IF QGt(x, QInt(5)) THEN QInt(5) ELSE x

\* mean(t) + sum of sim(t,v) * (r(v,i) - mean(v)) / sum of |sim(t,v)|
UserBasedPrediction(t, i) ==
  QAdd(TrainedMean(t),
       FDiv(FoldSeq(LAMBDA acc, v :
                      QAdd(acc, QMul(Sim(t, v), QSub(TrainedValue(v, i), TrainedMean(v)))),
                    QInt(0), SimilarRaters(t, i)),
            FoldSeq(LAMBDA acc, v : QAdd(acc, QAbs(Sim(t, v))), QInt(0), SimilarRaters(t, i))))

UserBasedAnswer ==
  /\ EngineReturned("collaborative")
  /\ trained /= <<>>
  /\ cf.method = "user-based"
  /\ SimilarUsers(result.user_id) /= {}

\* C23: a user-based engine asked about a user t with similar users returns
\* items out of those rated by a similar user and not by t, all of them when
\* the limit does not cut the list, each with the prediction
\* clamp(mean(t) + sum sim(t,v) * (r(v,i) - mean(v)) / sum |sim(t,v)|) over the
\* similar users v who rated it, summed here in the order of the users' ids.
C23_UserBasedPrediction ==
  UserBasedAnswer =>
    /\ \A k \in DOMAIN result.value :
         /\ result.value[k][1] \in UserBasedCandidates(result.user_id)
         /\ result.value[k][2] =
              Within(UserBasedPrediction(result.user_id, result.value[k][1]))
         /\ \A j \in DOMAIN result.value : result.value[j][1] = result.value[k][1] => j = k
    /\ result.limit = DefaultLimit =>
         RecommendedItems(result.value) = UserBasedCandidates(result.user_id)

\* an item that two similar users rated was predicted inside the range, next
\* to items of the similar users that the target user rated
C23_Witness ==
  /\ UserBasedAnswer
  /\ result.limit = DefaultLimit
  /\ \E k \in DOMAIN result.value :
       /\ Len(SimilarRaters(result.user_id, result.value[k][1])) = 2
       /\ QGt(result.value[k][2], Q(1, 2))
       /\ QLt(result.value[k][2], QInt(5))
       /\ result.value[k][2] /= TrainedMean(result.user_id)
  /\ \E v \in SimilarUsers(result.user_id) :
       RatedInTraining(v) \cap RatedInTraining(result.user_id) /= {}

\* the items rated by t that the similarity row of item i lists, in ascending
\* order of their ids
RatedSimilarItems(t, i) ==
  SortedSeq({j \in RatedInTraining(t) : DHas(DGet(cf.item_similarity, i, <<>>), j)})
\* sim(i, j)
ItemSim(i, j) == DGet(DGet(cf.item_similarity, i, <<>>), j, NaN)

\* the items not rated by t whose similarity row lists an item rated by t
ItemBasedCandidates(t) ==
  {i \in 0..MaxItem : i \notin RatedInTraining(t) /\ RatedSimilarItems(t, i) /= <<>>}

\* sum of sim(i,j) * r(t,j) / sum of |sim(i,j)|
ItemBasedPrediction(t, i) ==
  FDiv(FoldSeq(LAMBDA acc, j : QAdd(acc, QMul(ItemSim(i, j), TrainedValue(t, j))),
               QInt(0), RatedSimilarItems(t, i)),
       FoldSeq(LAMBDA acc, j : QAdd(acc, QAbs(ItemSim(i, j))), QInt(0),
               RatedSimilarItems(t, i)))

\* the largest rating t gave
LargestRating(t) ==
  CHOOSE x \in {r.value : r \in Range(RatingsOfUser(t))} :
    \A y \in {r.value : r \in Range(RatingsOfUser(t))} : ~QGt(y, x)

ItemBasedAnswer ==
  /\ EngineReturned("collaborative")
  /\ trained /= <<>>
  /\ cf.method = "item-based"

\* the items returned are the candidates, all of them when the limit does not
\* cut the list, each with the clamped prediction
ItemBasedFormula ==
  /\ \A k \in DOMAIN result.value :
       /\ result.value[k][1] \in ItemBasedCandidates(result.user_id)
       /\ result.value[k][2] =
            Within(ItemBasedPrediction(result.user_id, result.value[k][1]))
       /\ \A j \in DOMAIN result.value : result.value[j][1] = result.value[k][1] => j = k
  /\ result.limit = DefaultLimit =>
       RecommendedItems(result.value) = ItemBasedCandidates(result.user_id)

\* C24 as stated: an item-based engine returns an item i not rated by t iff
\* an item rated by t is in i's similarity row, with the prediction
\* clamp(sum sim(i,j) * r(t,j) / sum |sim(i,j)|), and no prediction exceeds the
\* largest rating t gave.
C24_NeverAboveLargestRating ==
  ItemBasedAnswer =>
    /\ ItemBasedFormula
    /\ \A k \in DOMAIN result.value :
         ~QGt(result.value[k][2], LargestRating(result.user_id))

\* C24: an item-based engine returns an item i not rated by t iff an item
\* rated by t is in i's similarity row, with the prediction
\* clamp(sum sim(i,j) * r(t,j) / sum |sim(i,j)|); no prediction exceeds the
\* larger of 0.5 and the largest rating t gave.
C24_ItemBasedPrediction ==
  ItemBasedAnswer =>
    /\ ItemBasedFormula
    /\ \A k \in DOMAIN result.value :
         ~QGt(result.value[k][2], QMax(Q(1, 2), LargestRating(result.user_id)))

\* a prediction from two rated items that lies between the ratings given
C24_Witness ==
  /\ ItemBasedAnswer
  /\ result.limit = DefaultLimit
  /\ \E k \in DOMAIN result.value :
       /\ Len(RatedSimilarItems(result.user_id, result.value[k][1])) >= 2
       /\ QLt(result.value[k][2], LargestRating(result.user_id))
       /\ QGt(result.value[k][2], Q(1, 2))

\* train has returned on a ContentBased engine
CBTrained == result.op = "train" /\ algorithms = <<"content-based">>

\* the attribute keys and the category features of the items trained with
AttributeKeys == UNION {DKeySet(trained[1].items[i].features) : i \in DOMAIN trained[1].items}
CategoryFeatures ==
  UNION {{<<"category_">> \o c : c \in Range(trained[1].items[i].categories)} :
           i \in DOMAIN trained[1].items}

\* C25: after ContentBased.train, feature_list holds every attribute key and
\* every category feature exactly once, no name twice, the attribute keys in
\* lexicographic order before the category features in lexicographic order,
\* and no category feature is an attribute key.
C25_FeatureListDistinct ==
  CBTrained =>
    /\ Range(cb.feature_list) = AttributeKeys \cup CategoryFeatures
    /\ \A i \in DOMAIN cb.feature_list, j \in DOMAIN cb.feature_list :
         cb.feature_list[i] = cb.feature_list[j] => i = j
    /\ \A i \in DOMAIN cb.feature_list, j \in DOMAIN cb.feature_list :
         i < j =>
           \/ /\ cb.feature_list[i] \in AttributeKeys
              /\ cb.feature_list[j] \in AttributeKeys
              /\ StrLt(cb.feature_list[i], cb.feature_list[j])
           \/ /\ cb.feature_list[i] \in CategoryFeatures
              /\ cb.feature_list[j] \in CategoryFeatures
              /\ StrLt(cb.feature_list[i], cb.feature_list[j])
           \/ /\ cb.feature_list[i] \in AttributeKeys
              /\ cb.feature_list[j] \in CategoryFeatures
    /\ AttributeKeys \cap CategoryFeatures = {}

\* the same for items none of whose attribute keys is a category feature
C25_DistinctWithoutClash ==
  (CBTrained /\ AttributeKeys \cap CategoryFeatures = {}) =>
    /\ Range(cb.feature_list) = AttributeKeys \cup CategoryFeatures
    /\ \A i \in DOMAIN cb.feature_list, j \in DOMAIN cb.feature_list :
         /\ cb.feature_list[i] = cb.feature_list[j] => i = j
         /\ (i < j /\ cb.feature_list[j] \in AttributeKeys) =>
              /\ cb.feature_list[i] \in AttributeKeys
              /\ StrLt(cb.feature_list[i], cb.feature_list[j])
         /\ (i < j /\ cb.feature_list[i] \in CategoryFeatures) =>
              /\ cb.feature_list[j] \in CategoryFeatures
              /\ StrLt(cb.feature_list[i], cb.feature_list[j])

\* w = (rating - 1) / 4
NormalizedWeight(value) == QDiv(QSub(value, QInt(1)), QInt(4))
\* the training ratings of user u with w > 0
PositiveRatings(u) ==
  SelectSeq(RatingsOfUser(u), LAMBDA r : QGt(NormalizedWeight(r.value), QInt(0)))

\* the value item i has for feature f: 1 for the feature of one of its
\* categories, else its attribute of that name, 0 without either and for an
\* item the training input does not hold
ItemValue(i, f) ==
  LET held == SelectSeq(trained[1].items, LAMBDA it : it.id = i)
  IN  IF held = <<>> THEN QInt(0)
      ELSE IF \E c \in Range(held[Len(held)].categories) : f = <<"category_">> \o c
      THEN QInt(1)
      ELSE DGet(held[Len(held)].features, f, QInt(0))

\* seed(f): the preference weight of user u for the category that f is the
\* feature of, 0 without one
Seed(u, f) ==
  LET known == SelectSeq(trained[1].users, LAMBDA x : x.id = u)
  IN  IF known = <<>> THEN QInt(0)
      ELSE IF \E k \in DOMAIN known[1].preferences :
                f = <<"category_">> \o known[1].preferences[k][1]
      THEN known[1].preferences[
             CHOOSE k \in DOMAIN known[1].preferences :
               f = <<"category_">> \o known[1].preferences[k][1]][2]
      ELSE QInt(0)

\* (seed(f) + sum of item_value(f) * w) / sum of w, over the ratings with w > 0
ProfileValue(u, f) ==
  QDiv(QAdd(Seed(u, f),
            FoldSeq(LAMBDA acc, r :
                      QAdd(acc, QMul(ItemValue(r.item_id, f), NormalizedWeight(r.value))),
                    QInt(0), PositiveRatings(u))),
       FoldSeq(LAMBDA acc, r : QAdd(acc, NormalizedWeight(r.value)), QInt(0),
               PositiveRatings(u)))

\* the feature names of the training input, and one that it does not hold
FeatureNames ==
  AttributeKeys \cup CategoryFeatures \cup {<<"category_", "drama">>, <<"drama">>}
    \cup UNION {{<<"category_">> \o trained[1].users[i].preferences[k][1] :
                   k \in DOMAIN trained[1].users[i].preferences} :
                  i \in DOMAIN trained[1].users}

\* C26: for a user with a rating of positive weight w = (rating - 1) / 4, the
\* profile value of every feature f is (seed(f) + sum of item_value(f) * w)
\* / (sum of w) over the user's ratings with w > 0, where seed(f) is the
\* user's preference weight for the category of f and 0 otherwise; the
\* profile holds no name outside the features and seeds.
C26_ProfileIsWeightedCentroid ==
  CBTrained =>
    \A u \in QueryUsers :
      PositiveRatings(u) /= <<>> =>
        /\ DHas(cb.user_profiles, u)
        /\ \A f \in FeatureNames :
             DGet(DGet(cb.user_profiles, u, <<>>), f, QInt(0)) = ProfileValue(u, f)
        /\ DKeySet(DGet(cb.user_profiles, u, <<>>)) \subseteq FeatureNames

\* a user with a preference for f, two ratings of positive weight on items
\* that have f, and a rating of weight 0
C26_Witness ==
  /\ CBTrained
  /\ \E u \in QueryUsers :
       /\ Len(PositiveRatings(u)) < Len(RatingsOfUser(u))
       /\ PositiveRatings(u) /= <<>>
  /\ \E u \in QueryUsers, f \in FeatureNames :
       /\ Len(PositiveRatings(u)) = 2
       /\ QGt(Seed(u, f), QInt(0))
       /\ \A k \in DOMAIN PositiveRatings(u) :
            ItemValue(PositiveRatings(u)[k].item_id, f) = QInt(1)
       /\ DGet(DGet(cb.user_profiles, u, <<>>), f, QInt(0)) = ProfileValue(u, f)

\* user u has training ratings, all of them at or below 1.0
OnlyLowRatings(u) ==
  /\ trained /= <<>>
  /\ RatingsOfUser(u) /= <<>>
  /\ \A k \in DOMAIN RatingsOfUser(u) : ~QGt(RatingsOfUser(u)[k].value, QInt(1))

\* the engine holds an empty profile for u (or none), and a query about u that
\* has returned gave the empty list
NoProfileNoAnswer(u) ==
  /\ DGet(cb.user_profiles, u, <<>>) = <<>>
  /\ (result.op = "recommend_for_user" /\ result.user_id = u) => result.value = <<>>

\* C27: for every user all of whose training ratings are at or below 1.0,
\* whatever preferences the user carries, the trained ContentBased engine
\* holds an empty profile and recommend_for_user returns the empty list.
C27_LowRatersHaveNoProfile ==
  algorithms = <<"content-based">> =>
    \A u \in QueryUsers : OnlyLowRatings(u) => NoProfileNoAnswer(u)

\* the same for the users among them who carry no preferences
C27_WithoutPreferences ==
  algorithms = <<"content-based">> =>
    \A u \in QueryUsers :
      (/\ OnlyLowRatings(u)
       /\ \A i \in DOMAIN trained[1].users :
            trained[1].users[i].id = u => trained[1].users[i].preferences = <<>>)
        => NoProfileNoAnswer(u)

\* a get_all raised in the call that has returned
GetAllRaised == result.op \in {"__init__", "refresh_models"} /\ result.raising /= "none"

\* what the service returns for every user, with and without the rated items
ServiceAnswers(cfe, cbe) ==
  [u \in QueryUsers, x \in BOOLEAN |->
     get_recommendations_for_user(algorithms, cfe, cbe, items, ratings, u, DefaultLimit, x)]

\* C28: when a repository's get_all raises during construction or
\* refresh_models, the exception reaches the caller and no engine's train is
\* called; a failed refresh leaves every engine's tables as they were, and
\* the recommendations after it are those before it.
C28_GetAllRaises ==
  /\ [](GetAllRaised => (result.raised /\ result.calls = <<>>))
  /\ [][(result'.op = "refresh_models" /\ result'.raising /= "none") =>
          /\ cf' = cf
          /\ cb' = cb
          /\ trained' = trained
          /\ ServiceAnswers(cf', cb') = ServiceAnswers(cf, cb)]_vars

\* a refresh failed on repositories that had changed since the engines were
\* trained, and the engines hold what they held
C28_Witness ==
  /\ result.op = "refresh_models"
  /\ result.raising = "ratings"
  /\ result.raised
  /\ ops > 0
  /\ trained[1].ratings /= get_all(ratings)
  /\ cf.user_similarity /= <<>>
  /\ cb.user_profiles /= <<>>

\* C29: for both engines, what an engine holds after train(B) depends on B
\* alone: trained with A and then with B, its tables are those of a new
\* engine of the same configuration trained with B, and so is what
\* recommend_for_user returns for every user.
C29_TrainReplacesEverything ==
  (result.op = "train" /\ previous /= <<>>) =>
    /\ cf = IF algorithms = <<"collaborative">>
            THEN CFTrain(CollaborativeFiltering(cf.method, cf.similarity_metric), trained[1])
            ELSE CollaborativeFiltering(cf.method, cf.similarity_metric)
    /\ cb = IF algorithms = <<"content-based">> THEN CBTrain(ContentBased, trained[1])
            ELSE ContentBased
    /\ \A u \in QueryUsers :
         IF algorithms = <<"collaborative">>
         THEN CFRecommend(cf, u, DefaultLimit) =
                CFRecommend(CFTrain(CollaborativeFiltering(cf.method, cf.similarity_metric),
                                    trained[1]), u, DefaultLimit)
         ELSE CBRecommend(cb, u, DefaultLimit) =
                CBRecommend(CBTrain(ContentBased, trained[1]), u, DefaultLimit)

\* an item-based engine holding similarities was trained with other ratings
C29_Witness ==
  /\ result.op = "train"
  /\ previous /= <<>>
  /\ previous[1].ratings /= <<>>
  /\ trained[1].ratings /= <<>>
  /\ previous[1].ratings /= trained[1].ratings
  /\ cf.method = "item-based"
  /\ cf.item_similarity /= <<>>
  /\ algorithms = <<"collaborative">>

\* the calls that ask and the calls that write to a repository
Queries == {"recommend_for_user", "explain_recommendation", "get_recommendations_for_user"}
Writes == {"save", "delete"}

\* C30: recommend_for_user, explain_recommendation and
\* get_recommendations_for_user leave every engine table as it was, and so do
\* save and delete on a repository, after which the engines predict what they
\* predicted before; only a training changes an engine.
C30_QueriesReadOnly ==
  [][/\ result'.op \in Queries \cup Writes => (cf' = cf /\ cb' = cb)
     /\ result'.op \in Writes =>
          \A u \in QueryUsers :
            /\ CFRecommend(cf', u, DefaultLimit) = CFRecommend(cf, u, DefaultLimit)
            /\ CBRecommend(cb', u, DefaultLimit) = CBRecommend(cb, u, DefaultLimit)
     /\ (cf' /= cf \/ cb' /= cb) => (result'.op = "refresh_models" /\ ~result'.raised)]_vars

\* the service answered a query after a rating was saved that its engines
\* were not trained with
C30_Witness ==
  /\ result.op = "get_recommendations_for_user"
  /\ result.returned.value /= <<>>
  /\ ops > 0
  /\ Len(get_all(ratings)) > Len(trained[1].ratings)

====
